---- MODULE Spec2Model ----
(***************************************************************************)
(* llmctx: the selection store (app/selection.rs) and the token            *)
(* estimation engine (app/tokens.rs).                                      *)
(*                                                                         *)
(* Option<T> is modelled as a sequence of length 0 (None) or 1 (Some(x)).  *)
(* Vec indices are 0-based as in the source; element i of a Vec v is       *)
(* v[i + 1] here.                                                          *)
(***************************************************************************)
EXTENDS Integers, Sequences, FiniteSets, TLC

\* ------------------------------------------------------------------ bounds
\* Largest line number a caller passes in a range.
MaxLine == 3

\* ------------------------------------------------------------ input domains
None == <<>>
Some(x) == <<x>>

Paths == {"a.rs", "b.md"}

\* Every raw range over the lines: 0 bounds and reversed bounds included.
RawRanges == {<<s, e>> : s \in 0..MaxLine, e \in 0..MaxLine}

\* The ranges the store operations are called with: whole file, every
\* well-formed range, and reversed and 0-bound ranges.
RangeInputs ==
    {None} \cup {Some(r) : r \in {raw \in RawRanges : 1 <= raw[1] /\ raw[1] <= raw[2]}}
           \cup {Some(<<0, 0>>), Some(<<0, MaxLine>>), Some(<<MaxLine, 1>>)}

\* Raw notes a caller may pass.
NoteInputs == {None, Some(" "), Some(" x ")}

\* str::trim on the note strings above.
Trim(s) == CASE s = " " -> ""
             [] s = " x " -> "x"
             [] OTHER -> s

Min(a, b) == IF a <= b THEN a ELSE b
Max(a, b) == IF a >= b THEN a ELSE b

\* ------------------------------------------------------------------- state
VARIABLES
    items,      \* SelectionManager.items : Vec<SelectionItem>
    model,      \* SelectionManager.model : Option<String>
    last,       \* the last store call: operation, path, kind of range (whole file;
                \* given reversed or with a 0 bound), number of entries the path
                \* had before it, return value
    added,      \* per path: the lines passed to ranged add_selection calls and
                \* not removed since
    returned,   \* the ContextBundle the last to_bundle call gave its caller, if any
    estimator,  \* TokenEstimator: model, token_budget, heuristics
    clone,      \* a TokenEstimator::clone() of it: its own model, token_budget and
                \* heuristics, and the same cache
    cache,      \* TokenEstimator.cache : HashMap<CacheKey, ItemTokenEstimate>
    bpe,        \* per tokenizer family: what its OnceLock holds once initialized
    built,      \* per tokenizer family: how many times its constructor has run
    bpeLock,    \* per tokenizer family: the caller holding the Mutex<CoreBPE>, or 0
    files,      \* the file system: per path, whether it can be stat'ed and read,
                \* its modification time and its content
    origin,     \* per cache key: the file content its entry was computed from
    lastEst,    \* the last estimate_bundle call: bundle, result, the fingerprints
                \* it saw
    since,      \* what happened since that call: files or configuration changed,
                \* paths invalidated
    callers,    \* per concurrent caller of estimate_bundle: where it is in
                \* estimate_item, and its locals
    lock,       \* the holder of the cache Mutex, 0 when it is free
    writing,    \* the key whose entry a HashMap::insert is writing
    sawPartial, \* a cache read found the entry of its key being written
    inval       \* per path, the contents the file had at and after the last
                \* invalidate_path of it (since the start when there was none);
                \* the callers an invalidate_path of their path overtook after
                \* they read; the keys of the entries such callers inserted

storeVars == <<items, model, last, added, returned>>
concVars == <<callers, lock, writing, sawPartial, inval>>
onceVars == <<bpe, built, bpeLock>>
engineVars == <<estimator, clone, cache, onceVars, files, origin, lastEst, since, concVars>>
vars == <<items, model, last, added, returned, estimator, clone, cache, bpe, built, bpeLock, files,
          origin, lastEst, since, callers, lock, writing, sawPartial, inval>>

\* ------------------------------------------------- selection.rs: helpers
\* Variant: the bounds are floored at 1 but not put in order.
normalize_range_unordered(range) == <<Max(range[1], 1), Max(range[2], 1)>>

normalize_range(range) ==
    LET start == Max(Min(range[1], range[2]), 1)
        end == Max(Max(range[1], range[2]), 1)
    IN <<start, end>>

\* Variant: ranges merge only when they share a line.
ranges_mergeable_overlap(a, b) ==
    a[1] <= b[2] /\ b[1] <= a[2]

\* saturating_add(1): line numbers stay far below usize::MAX here.
ranges_mergeable(a, b) ==
    a[1] <= b[2] + 1 /\ b[1] <= a[2] + 1

clean_note(note) ==
    LET trimmed == Trim(note)
    IN IF trimmed = "" THEN None ELSE Some(trimmed)

\* Option::map(normalize_range)
MapNormalize(range) == IF range = None THEN None ELSE Some(normalize_range(range[1]))

\* Option::and_then(clean_note)
AndThenClean(note) == IF note = None THEN None ELSE clean_note(note[1])

\* Vec::remove(index) and Vec::insert(index, x), 0-based.
VecRemove(v, index) == SubSeq(v, 1, index) \o SubSeq(v, index + 2, Len(v))
VecInsert(v, index, x) == SubSeq(v, 1, index) \o <<x>> \o SubSeq(v, index + 1, Len(v))

\* Vec::retain(keep)
Retain(v, keep(_)) == SelectSeq(v, keep)

\* ------------------------------------- selection.rs: insert_entire_file
\* The while loop of insert_entire_file: state (items, index, insert_at,
\* preserved_note).
RECURSIVE EntireFileLoop(_, _, _, _, _)
EntireFileLoop(its, path, index, insert_at, preserved_note) ==
    IF index < Len(its)
    THEN IF its[index + 1].path = path
         THEN EntireFileLoop(VecRemove(its, index), path, index,
                             IF insert_at = None THEN Some(index) ELSE insert_at,
                             IF preserved_note = None THEN its[index + 1].note
                                                      ELSE preserved_note)
         ELSE EntireFileLoop(its, path, index + 1, insert_at, preserved_note)
    ELSE [items |-> its, insert_at |-> insert_at, preserved_note |-> preserved_note]

\* Variant: only the ranged entries of the path are replaced.
insert_entire_file_ranged_only(its, item) ==
    LET ranged == {idx \in 1..Len(its) : its[idx].path = item.path /\ its[idx].range # None}
        rest == SelectSeq(its, LAMBDA e : ~(e.path = item.path /\ e.range # None))
        first == IF ranged = {} THEN Len(rest)
                 ELSE (CHOOSE idx \in ranged : \A other \in ranged : idx <= other) - 1
    IN [items |-> VecInsert(rest, first, item), ret |-> item]

\* Variant: the whole-file entry is pushed to the end of the list.
insert_entire_file_appends(its, item) ==
    LET loop == EntireFileLoop(its, item.path, 0, None, item.note)
        new == IF item.note = None THEN [item EXCEPT !.note = loop.preserved_note] ELSE item
    IN [items |-> Append(loop.items, new), ret |-> new]

insert_entire_file(its, item) ==
    LET loop == EntireFileLoop(its, item.path, 0, None, item.note)
        new == IF item.note = None THEN [item EXCEPT !.note = loop.preserved_note] ELSE item
        position == IF loop.insert_at = None THEN Len(loop.items) ELSE loop.insert_at[1]
    IN [items |-> VecInsert(loop.items, position, new), ret |-> new]

\* ------------------------------------------- selection.rs: insert_range
\* Variant: the loop does not stop at a whole-file entry of the path.
RECURSIVE RangeLoop_no_whole_check(_, _, _, _, _, _)
RangeLoop_no_whole_check(its, item, idx, range, merged_indices, inherited_note) ==
    IF idx >= Len(its)
    THEN [early |-> FALSE, items |-> its, range |-> range,
          merged_indices |-> merged_indices, inherited_note |-> inherited_note,
          updated |-> item]
    ELSE LET existing == its[idx + 1] IN
         IF existing.path = item.path /\ existing.range # None
            /\ ranges_mergeable(range, existing.range[1])
         THEN RangeLoop_no_whole_check(its, item, idx + 1,
                        <<Min(range[1], existing.range[1][1]),
                          Max(range[2], existing.range[1][2])>>,
                        Append(merged_indices, idx),
                        IF inherited_note = None THEN existing.note ELSE inherited_note)
         ELSE RangeLoop_no_whole_check(its, item, idx + 1, range, merged_indices,
                                       inherited_note)

\* Variant: at a whole-file entry of the path the note is replaced even when
\* none was given.
RECURSIVE RangeLoop_always_sets_note(_, _, _, _, _, _)
RangeLoop_always_sets_note(its, item, idx, range, merged_indices, inherited_note) ==
    IF idx >= Len(its)
    THEN [early |-> FALSE, items |-> its, range |-> range,
          merged_indices |-> merged_indices, inherited_note |-> inherited_note,
          updated |-> item]
    ELSE LET existing == its[idx + 1] IN
         IF existing.path # item.path
         THEN RangeLoop_always_sets_note(its, item, idx + 1, range, merged_indices,
                                         inherited_note)
         ELSE IF existing.range = None
         THEN LET updated == [existing EXCEPT !.note = item.note]
              IN [early |-> TRUE,
                  items |-> [its EXCEPT ![idx + 1] = updated],
                  range |-> range, merged_indices |-> merged_indices,
                  inherited_note |-> inherited_note, updated |-> updated]
         ELSE IF ranges_mergeable(range, existing.range[1])
         THEN RangeLoop_always_sets_note(its, item, idx + 1,
                        <<Min(range[1], existing.range[1][1]),
                          Max(range[2], existing.range[1][2])>>,
                        Append(merged_indices, idx),
                        IF inherited_note = None THEN existing.note ELSE inherited_note)
         ELSE RangeLoop_always_sets_note(its, item, idx + 1, range, merged_indices,
                                         inherited_note)

\* Variant: every merged entry that has a note overwrites the inherited one.
RECURSIVE RangeLoop_last_note(_, _, _, _, _, _)
RangeLoop_last_note(its, item, idx, range, merged_indices, inherited_note) ==
    IF idx >= Len(its)
    THEN [early |-> FALSE, items |-> its, range |-> range,
          merged_indices |-> merged_indices, inherited_note |-> inherited_note,
          updated |-> item]
    ELSE LET existing == its[idx + 1] IN
         IF existing.path # item.path
         THEN RangeLoop_last_note(its, item, idx + 1, range, merged_indices, inherited_note)
         ELSE IF existing.range = None
         THEN LET updated == IF item.note # None
                             THEN [existing EXCEPT !.note = item.note]
                             ELSE existing
              IN [early |-> TRUE,
                  items |-> [its EXCEPT ![idx + 1] = updated],
                  range |-> range, merged_indices |-> merged_indices,
                  inherited_note |-> inherited_note, updated |-> updated]
         ELSE IF ranges_mergeable(range, existing.range[1])
         THEN RangeLoop_last_note(its, item, idx + 1,
                        <<Min(range[1], existing.range[1][1]),
                          Max(range[2], existing.range[1][2])>>,
                        Append(merged_indices, idx),
                        IF existing.note # None THEN existing.note ELSE inherited_note)
         ELSE RangeLoop_last_note(its, item, idx + 1, range, merged_indices, inherited_note)

\* The for loop of insert_range. early = TRUE is the return from inside the
\* loop at a whole-file entry of the path.
RECURSIVE RangeLoop(_, _, _, _, _, _)
RangeLoop(its, item, idx, range, merged_indices, inherited_note) ==
    IF idx >= Len(its)
    THEN [early |-> FALSE, items |-> its, range |-> range,
          merged_indices |-> merged_indices, inherited_note |-> inherited_note,
          updated |-> item]
    ELSE LET existing == its[idx + 1] IN
         IF existing.path # item.path
         THEN RangeLoop(its, item, idx + 1, range, merged_indices, inherited_note)
         ELSE IF existing.range = None
         THEN LET updated == IF item.note # None
                             THEN [existing EXCEPT !.note = item.note]
                             ELSE existing
              IN [early |-> TRUE,
                  items |-> [its EXCEPT ![idx + 1] = updated],
                  range |-> range, merged_indices |-> merged_indices,
                  inherited_note |-> inherited_note, updated |-> updated]
         ELSE IF ranges_mergeable(range, existing.range[1])
         THEN RangeLoop(its, item, idx + 1,
                        <<Min(range[1], existing.range[1][1]),
                          Max(range[2], existing.range[1][2])>>,
                        Append(merged_indices, idx),
                        IF inherited_note = None THEN existing.note ELSE inherited_note)
         ELSE RangeLoop(its, item, idx + 1, range, merged_indices, inherited_note)

\* for idx in merged_indices.iter().rev() { items.remove(*idx) }
RECURSIVE RemoveMerged(_, _)
RemoveMerged(its, merged_indices) ==
    IF merged_indices = <<>> THEN its
    ELSE RemoveMerged(VecRemove(its, merged_indices[Len(merged_indices)]),
                      SubSeq(merged_indices, 1, Len(merged_indices) - 1))

\* Variant: with no entry of the path left, the position is one past the end.
InsertPosition_past_end(its, path, range) ==
    LET after == {idx \in 0..(Len(its) - 1) :
                     /\ its[idx + 1].path = path
                     /\ its[idx + 1].range # None
                     /\ its[idx + 1].range[1][1] > range[2]}
        same == {idx \in 0..(Len(its) - 1) : its[idx + 1].path = path}
    IN IF after # {} THEN CHOOSE idx \in after : \A other \in after : idx <= other
       ELSE IF same # {} THEN (CHOOSE idx \in same : \A other \in same : idx >= other) + 1
       ELSE Len(its) + 1

\* Variant: the merged entry always goes to the end of the list.
InsertPosition_at_end(its, path, range) == Len(its)

\* Variant: the search does not compare the start with the merged end.
InsertPosition_first_of_path(its, path, range) ==
    LET same == {idx \in 0..(Len(its) - 1) : its[idx + 1].path = path}
    IN IF same # {} THEN CHOOSE idx \in same : \A other \in same : idx <= other
       ELSE Len(its)

\* Variant: the merged entry goes to the front of the list.
InsertPosition_at_front(its, path, range) == 0

\* The position search: the first entry of the path starting after the
\* merged range, else one past the last entry of the path, else the end.
InsertPosition(its, path, range) ==
    LET after == {idx \in 0..(Len(its) - 1) :
                     /\ its[idx + 1].path = path
                     /\ its[idx + 1].range # None
                     /\ its[idx + 1].range[1][1] > range[2]}
        same == {idx \in 0..(Len(its) - 1) : its[idx + 1].path = path}
    IN IF after # {} THEN CHOOSE idx \in after : \A other \in after : idx <= other
       ELSE IF same # {} THEN (CHOOSE idx \in same : \A other \in same : idx >= other) + 1
       ELSE Len(its)

\* Variant: the merged entry takes the supplied note only.
insert_range_drops_note(its, item, range) ==
    LET loop == RangeLoop(its, item, 0, range, <<>>, item.note) IN
    IF loop.early
    THEN [items |-> loop.items, ret |-> loop.updated]
    ELSE LET rest == RemoveMerged(its, loop.merged_indices)
             new == [path |-> item.path, range |-> Some(loop.range), note |-> item.note]
             position == InsertPosition(rest, item.path, loop.range)
         IN [items |-> VecInsert(rest, position, new), ret |-> new]

insert_range(its, item, range) ==
    LET loop == RangeLoop(its, item, 0, range, <<>>, item.note) IN
    IF loop.early
    THEN [items |-> loop.items, ret |-> loop.updated]
    ELSE LET rest == RemoveMerged(its, loop.merged_indices)
             new == [path |-> item.path,
                     range |-> Some(loop.range),
                     note |-> IF item.note = None THEN loop.inherited_note ELSE item.note]
             position == InsertPosition(rest, item.path, loop.range)
         IN [items |-> VecInsert(rest, position, new), ret |-> new]

\* ------------------------------------------- selection.rs: operations
\* A range argument that normalize_range changes.
Irregular(range) == range # None /\ normalize_range(range[1]) # range[1]

\* Number of entries stored for a path.
CountPath(its, path) == Cardinality({idx \in 1..Len(its) : its[idx].path = path})

\* History of each path: the lines of the ranges that add_selection was given
\* (normalized) while the path had no whole-file entry, less the lines of the
\* ranges that remove_selection took out; empty again once the path is
\* emptied or replaced by a whole-file entry.
LinesOf(range) == range[1]..range[2]

HasWholeFile(its, path) == \E idx \in 1..Len(its) : its[idx].path = path /\ its[idx].range = None

TrackAdd(path, range) ==
    added' = [added EXCEPT ![path] =
                 IF range = None THEN {}
                 ELSE IF HasWholeFile(items, path) THEN @
                 ELSE @ \cup LinesOf(normalize_range(range[1]))]

TrackRemove(path, range, changed) ==
    added' = [added EXCEPT ![path] =
                 IF range = None THEN {}
                 ELSE IF changed THEN @ \ LinesOf(normalize_range(range[1]))
                 ELSE @]

AddResult(its, path, range, note) ==
    LET item == [path |-> path, range |-> MapNormalize(range), note |-> AndThenClean(note)]
    IN IF item.range = None THEN insert_entire_file(its, item)
                            ELSE insert_range(its, item, item.range[1])

add_selection(path, range, note) ==
    LET res == AddResult(items, path, range, note) IN
    /\ items' = res.items
    /\ last' = [op |-> "add_selection", path |-> path, whole |-> (range = None),
                irregular |-> Irregular(range),
                prior |-> CountPath(items, path), ret |-> res.ret]
    /\ TrackAdd(path, range)
    /\ UNCHANGED <<model, returned, engineVars>>

\* Variant: the ranged branch does not compare the path.
RemoveResult_any_path(its, path, range) ==
    LET target == MapNormalize(range)
        KeepOther(item) == item.path # path
        KeepTarget(item) == item.range # target
    IN IF target = None THEN Retain(its, KeepOther) ELSE Retain(its, KeepTarget)

\* Variant: without a range only the whole-file entry of the path goes.
RemoveResult_whole_file_only(its, path, range) ==
    LET target == MapNormalize(range)
        KeepOther(item) == item.path # path \/ item.range # None
        KeepTarget(item) == IF item.path # path THEN TRUE ELSE item.range # target
    IN IF target = None THEN Retain(its, KeepOther) ELSE Retain(its, KeepTarget)

\* Variant: a ranged removal takes every entry of the path that overlaps the
\* target.
RemoveResult_overlapping(its, path, range) ==
    LET target == MapNormalize(range)
        KeepOther(item) == item.path # path
        KeepTarget(item) ==
            IF item.path # path \/ item.range = None THEN TRUE
            ELSE item.range[1][2] < target[1][1] \/ target[1][2] < item.range[1][1]
    IN IF target = None THEN Retain(its, KeepOther) ELSE Retain(its, KeepTarget)

RemoveResult(its, path, range) ==
    LET target == MapNormalize(range)
        KeepOther(item) == item.path # path
        KeepTarget(item) == IF item.path # path THEN TRUE ELSE item.range # target
    IN IF target = None THEN Retain(its, KeepOther) ELSE Retain(its, KeepTarget)

\* self.items.len() != original_len
RemoveReturn(its, path, range) == Len(RemoveResult(its, path, range)) # Len(its)

remove_selection(path, range) ==
    LET kept == RemoveResult(items, path, range) IN
    /\ items' = kept
    /\ last' = [op |-> "remove_selection", path |-> path, whole |-> (range = None),
                irregular |-> FALSE, prior |-> CountPath(items, path),
                ret |-> RemoveReturn(items, path, range)]
    /\ TrackRemove(path, range, RemoveReturn(items, path, range))
    /\ UNCHANGED <<model, returned, engineVars>>

\* Variant: the match looks at the path alone.
SetNoteMatch_any_range(its, path, normalized) ==
    {idx \in 0..(Len(its) - 1) : its[idx + 1].path = path}

\* iter_mut().find(..): the first entry of the path whose range is the target.
SetNoteMatch(its, path, normalized) ==
    {idx \in 0..(Len(its) - 1) :
        /\ its[idx + 1].path = path
        /\ \/ (its[idx + 1].range = None /\ normalized = None)
           \/ (its[idx + 1].range # None /\ normalized # None
               /\ its[idx + 1].range[1] = normalized[1])}

\* set_note: the items afterwards and the value returned.
SetNoteResult(its, path, range, note) ==
    LET normalized == MapNormalize(range)
        cleaned == AndThenClean(note)
        found == SetNoteMatch(its, path, normalized)
        first == CHOOSE idx \in found : \A other \in found : idx <= other
    IN [items |-> IF found # {} THEN [its EXCEPT ![first + 1].note = cleaned] ELSE its,
        ret |-> (found # {})]

set_note(path, range, note) ==
    LET res == SetNoteResult(items, path, range, note)
    IN /\ items' = res.items
       /\ last' = [op |-> "set_note", path |-> path, whole |-> (range = None),
                   irregular |-> FALSE, prior |-> 0, ret |-> res.ret]
       /\ UNCHANGED <<model, added, returned, engineVars>>

\* Variant: the configured model survives.
clear_keeps_model ==
    /\ items' = <<>>
    /\ last' = [op |-> "clear", path |-> "", whole |-> FALSE, irregular |-> FALSE,
                prior |-> Len(items), ret |-> FALSE]
    /\ added' = [path \in Paths |-> {}]
    /\ UNCHANGED <<model, returned, engineVars>>

clear ==
    /\ items' = <<>>
    /\ model' = None
    /\ last' = [op |-> "clear", path |-> "", whole |-> FALSE, irregular |-> FALSE,
                prior |-> Len(items), ret |-> FALSE]
    /\ added' = [path \in Paths |-> {}]
    /\ UNCHANGED <<returned, engineVars>>

\* A store call that is about no path and returns nothing.
Called(op) ==
    [op |-> op, path |-> "", whole |-> FALSE, irregular |-> FALSE, prior |-> 0, ret |-> FALSE]

\* SelectionManager::set_model
manager_set_model(m) ==
    /\ model' = Some(m)
    /\ last' = Called("set_model")
    /\ UNCHANGED <<items, added, returned, engineVars>>

clear_model ==
    /\ model' = None
    /\ last' = Called("clear_model")
    /\ UNCHANGED <<items, added, returned, engineVars>>

\* Variant: the configured model comes before the override.
BundleOf_store_model_first(its, configured, override_model) ==
    [items |-> its, model |-> IF configured # None THEN configured ELSE override_model]

\* ContextBundle { items: self.items.clone(),
\*                 model: override_model.or_else(|| self.model.clone()) }
BundleOf(its, configured, override_model) ==
    [items |-> its, model |-> IF override_model # None THEN override_model ELSE configured]

to_bundle_with_model(override_model) ==
    /\ returned' = Some(BundleOf(items, model, override_model))
    /\ last' = Called("to_bundle_with_model")
    /\ UNCHANGED <<items, model, added, engineVars>>

to_bundle ==
    /\ returned' = Some(BundleOf(items, model, None))
    /\ last' = Called("to_bundle")
    /\ UNCHANGED <<items, model, added, engineVars>>

\* =================================================== tokens.rs: the engine
\* ---------------------------------------------------------- the file system
\* Largest modification time a file takes.
MaxMtime == 2

\* A text is its lines (each with its number of characters and of
\* whitespace-separated words) and whether it ends with a newline.
\* "A" is "ab\nc\n", "B" is "a b\nc": the same length, different lines.
FileText(content) ==
    CASE content = "A" -> [lines |-> <<[chars |-> 2, words |-> 1], [chars |-> 1, words |-> 1]>>,
                           nl |-> TRUE]
      [] content = "B" -> [lines |-> <<[chars |-> 3, words |-> 2], [chars |-> 1, words |-> 1]>>,
                           nl |-> FALSE]

Contents == {"A", "B"}

RECURSIVE SumOver(_, _)
SumOver(lines, field) ==
    IF lines = <<>> THEN 0 ELSE lines[1][field] + SumOver(Tail(lines), field)

\* str::chars().count(): the characters of the lines and the newlines between
\* and after them.
CharCount(text) ==
    SumOver(text.lines, "chars")
        + (IF Len(text.lines) > 0 THEN Len(text.lines) - 1 ELSE 0)
        + (IF text.nl THEN 1 ELSE 0)

\* fs::metadata().len(): the texts are ASCII, one byte per character.
ByteLen(content) == CharCount(FileText(content))

\* A file: "ok" can be stat'ed and read, "denied" can be stat'ed but not read
\* (no read permission), "missing" can be neither. Only the length of a
\* denied file is looked at, and the contents here have the same length.
FileStates ==
    {[kind |-> "missing", mtime |-> 1, content |-> "A"]}
        \cup [kind : {"ok"}, mtime : 1..MaxMtime, content : Contents]
        \cup [kind : {"denied"}, mtime : 1..MaxMtime, content : {"A"}]

\* The file the engine models start from.
InitialFile == [kind |-> "ok", mtime |-> 1, content |-> "A"]

\* The contents a read of the file can return.
Readable(file) == IF file.kind = "ok" THEN {file.content} ELSE {}

\* The states a path's file takes: "a.rs" is edited, touched, protected and
\* removed; "b.md" is only removed and restored.
FileStatesOf(path) ==
    IF path = "a.rs" THEN FileStates
    ELSE {InitialFile, [kind |-> "missing", mtime |-> 1, content |-> "A"]}

\* ------------------------------------------------------------- TokenModel
TokenModels == {"OpenAiGpt4o", "OpenAiGpt4oMini", "AnthropicClaude3Haiku",
                "AnthropicClaude35Sonnet", "CharacterFallback"}

\* value.trim().to_ascii_lowercase() on the model strings used here.
TrimLower(value) ==
    CASE value = " Fallback " -> "fallback"
      [] value = "OPENAI:GPT-4O" -> "openai:gpt-4o"
      [] OTHER -> value

\* impl FromStr for TokenModel: Some(model), or None for Err(UnknownModel).
from_str(value) ==
    LET normalized == TrimLower(value) IN
    CASE normalized = "openai:gpt-4o" -> Some("OpenAiGpt4o")
      [] normalized = "openai:gpt-4o-mini" -> Some("OpenAiGpt4oMini")
      [] normalized = "anthropic:claude-3-haiku" -> Some("AnthropicClaude3Haiku")
      [] normalized = "anthropic:claude-3.5-sonnet" -> Some("AnthropicClaude35Sonnet")
      [] normalized \in {"fallback:characters", "heuristic", "fallback"} ->
            Some("CharacterFallback")
      [] OTHER -> None

\* ---------------------------------------------------------- HeuristicConfig
\* The f32 parameters are kept as integers: characters per token and tokens
\* per word in tenths, the code multiplier in hundredths.
DefaultHeuristics ==
    [default_chars_per_token |-> 40, anthropic_chars_per_token |-> 32,
     tokens_per_word |-> 10, code_token_multiplier |-> 125]

HeuristicInputs ==
    {DefaultHeuristics,
     [default_chars_per_token |-> 10, anthropic_chars_per_token |-> 10,
      tokens_per_word |-> 20, code_token_multiplier |-> 200]}

\* usize::MAX, which no count of the texts used here comes near: the value
\* an `as usize` cast saturates at.
UsizeMax == 1000000

\* f32::ceil of a / b; a / 0 is infinite for a > 0, and saturates when cast.
CeilDiv(a, b) ==
    IF b > 0 THEN -((-a) \div b)
    ELSE IF b < 0 THEN -(a \div (-b))
    ELSE IF a > 0 THEN UsizeMax ELSE 0

\* `x as usize` of a whole f32: negative values become 0, large ones saturate.
AsUsize(x) == IF x < 0 THEN 0 ELSE Min(x, UsizeMax)

chars_per_token_for(heuristics, m) ==
    IF m \in {"AnthropicClaude3Haiku", "AnthropicClaude35Sonnet"}
    THEN heuristics.anthropic_chars_per_token
    ELSE heuristics.default_chars_per_token

\* split_whitespace().count()
count_words(text) == SumOver(text.lines, "words")

\* text.trim().is_empty(): no character that is not whitespace.
TrimIsEmpty(text) == count_words(text) = 0

\* Variant: the estimate is returned without the final max(1).
estimate_without_floor(heuristics, text, m, is_code) ==
    IF TrimIsEmpty(text) THEN 0
    ELSE LET chars == CharCount(text)
             words == count_words(text)
             char_based == CeilDiv(chars * 10, chars_per_token_for(heuristics, m))
             word_based == CeilDiv(words * heuristics.tokens_per_word, 10)
             first == AsUsize(Max(char_based, word_based))
         IN IF is_code
            THEN AsUsize(CeilDiv(first * heuristics.code_token_multiplier, 100))
            ELSE first

\* HeuristicConfig::estimate
estimate(heuristics, text, m, is_code) ==
    IF TrimIsEmpty(text) THEN 0
    ELSE LET chars == CharCount(text)
             words == count_words(text)
             char_based == CeilDiv(chars * 10, chars_per_token_for(heuristics, m))
             word_based == CeilDiv(words * heuristics.tokens_per_word, 10)
             first == AsUsize(Max(char_based, word_based))
             scaled == IF is_code
                       THEN AsUsize(CeilDiv(first * heuristics.code_token_multiplier, 100))
                       ELSE first
         IN Max(scaled, 1)

\* path.extension() of the paths used here.
Extension(path) ==
    CASE path = "a.rs" -> Some("rs")
      [] path = "b.md" -> Some("md")
      [] OTHER -> None

is_probably_code(path) ==
    /\ Extension(path) # None
    /\ Extension(path)[1] \in
          {"rs", "ts", "js", "jsx", "tsx", "py", "java", "c", "cpp", "cc", "h", "hpp",
           "go", "rb", "php", "cs", "swift", "scala", "kt", "sh", "zsh", "fish"}

\* ---------------------------------------------------------------- tokenizers
Families == {"o200k", "cl100k"}

\* tokenizer_for: the exact tokenizer of the model's family when its OnceLock
\* holds Ok, else the heuristic.
tokenizer_for(tokenizers, m) ==
    CASE m \in {"OpenAiGpt4o", "OpenAiGpt4oMini"} ->
            IF tokenizers["o200k"] = "ok" THEN "o200k" ELSE "err"
      [] m \in {"AnthropicClaude3Haiku", "AnthropicClaude35Sonnet"} ->
            IF tokenizers["cl100k"] = "ok" THEN "cl100k" ELSE "err"
      [] OTHER -> "heuristic"

\* CoreBPE::encode_ordinary(contents).len(): the tokenizers are an external
\* library; a text's token count is taken to be two per word and one per
\* newline, one more for cl100k.
encode_ordinary_len(family, text) ==
    2 * count_words(text) + (CharCount(text) - SumOver(text.lines, "chars"))
        + (IF family = "cl100k" THEN 1 ELSE 0)

count_tokens(heuristics, tokenizers, m, item, contents) ==
    IF TrimIsEmpty(contents) THEN 0
    ELSE LET tokenizer == tokenizer_for(tokenizers, m) IN
         IF tokenizer \in Families
         THEN encode_ordinary_len(tokenizer, contents)
         ELSE estimate(heuristics, contents, m, is_probably_code(item.path))

\* ------------------------------------------------------ reading the files
\* file_fingerprint: None when fs::metadata fails.
file_fingerprint(fs, path) ==
    IF fs[path].kind = "missing" THEN None
    ELSE Some([len |-> ByteLen(fs[path].content), modified |-> Some(fs[path].mtime)])

\* Variant: end_idx is not clamped to the number of lines.
SliceBounds_unclamped(n, range) ==
    LET start_idx == Max(range[1] - 1, 0)
        end_idx == Max(range[2], start_idx)
    IN IF start_idx >= n THEN None ELSE Some(<<start_idx, end_idx>>)

\* The bounds of lines[start_idx..end_idx] over n lines: None when the text
\* is cleared instead.
SliceBounds(n, range) ==
    LET start_idx == Max(range[1] - 1, 0)
        end_idx == Max(range[2], start_idx)
    IN IF start_idx >= n THEN None ELSE Some(<<start_idx, Min(end_idx, n)>>)

\* Variant: the joined lines are given a final newline.
SliceLines_trailing_newline(text, range) ==
    LET bounds == SliceBounds(Len(text.lines), range) IN
    IF bounds = None
    THEN [lines |-> <<>>, nl |-> FALSE]
    ELSE [lines |-> SubSeq(text.lines, bounds[1][1] + 1, bounds[1][2]), nl |-> TRUE]

\* The range of load_selection_contents applied to a text.
SliceLines(text, range) ==
    LET bounds == SliceBounds(Len(text.lines), range) IN
    IF bounds = None
    THEN [lines |-> <<>>, nl |-> FALSE]
    ELSE [lines |-> SubSeq(text.lines, bounds[1][1] + 1, bounds[1][2]), nl |-> FALSE]

\* The text load_selection_contents returns for a file content.
SelectionText(content, range) ==
    IF range = None THEN FileText(content) ELSE SliceLines(FileText(content), range[1])

\* load_selection_contents: None for the Err of fs::read.
load_selection_contents(fs, item) ==
    IF fs[item.path].kind # "ok" THEN None
    ELSE Some(SelectionText(fs[item.path].content, item.range))

\* ------------------------------------------------------------ the cache
\* A key that leaves the range out.
CacheKey_without_range(m, item, fingerprint) ==
    [model |-> m, path |-> item.path, range |-> None, fingerprint |-> fingerprint]

CacheKey(m, item, fingerprint) ==
    [model |-> m, path |-> item.path, range |-> item.range, fingerprint |-> fingerprint]

\* Variant: an insert that writes the value under every key.
MapInsert_overwrites_all(map, key, value) ==
    [k \in DOMAIN map \cup {key} |-> value]

\* HashMap::insert
MapInsert(map, key, value) ==
    [k \in DOMAIN map \cup {key} |-> IF k = key THEN value ELSE map[k]]

\* The content an entry is computed from, recorded beside the insert.
NoteOrigin(map, key, content) ==
    [k \in DOMAIN map \cup {key} |-> IF k = key THEN content ELSE map[k]]

\* HashMap::retain
MapRetain(map, keep(_)) == [k \in {x \in DOMAIN map : keep(x)} |-> map[k]]

EmptyMap == [k \in {} |-> None]

\* The ItemTokenEstimate computed for an item from a text.
ComputeEstimate(heuristics, tokenizers, m, item, contents) ==
    [item |-> item,
     tokens |-> count_tokens(heuristics, tokenizers, m, item, contents),
     characters |-> CharCount(contents)]

\* Variant: a miss evicts the entries of the same model, path and range that
\* were stored under other fingerprints.
estimate_item_evicts_outdated(st, est, tokenizers, fs, m, item) ==
    LET fingerprint == file_fingerprint(fs, item.path)
        key == CacheKey(m, item, fingerprint)
        Other(k) == ~(k.model = m /\ k.path = item.path /\ k.range = key.range)
    IN IF key \in DOMAIN st.cache
       THEN [ok |-> TRUE, estimate |-> st.cache[key], cache |-> st.cache, origin |-> st.origin]
       ELSE LET contents == load_selection_contents(fs, item) IN
            IF contents = None
            THEN [ok |-> FALSE, estimate |-> None, cache |-> st.cache, origin |-> st.origin]
            ELSE LET new == ComputeEstimate(est.heuristics, tokenizers, m, item, contents[1])
                 IN [ok |-> TRUE, estimate |-> new,
                     cache |-> MapInsert(MapRetain(st.cache, Other), key, new),
                     origin |-> NoteOrigin(MapRetain(st.origin, Other), key,
                                           fs[item.path].content)]

\* Variant: a hit returns the cached counts with the item of this call.
estimate_item_refreshes_item(st, est, tokenizers, fs, m, item) ==
    LET fingerprint == file_fingerprint(fs, item.path)
        key == CacheKey(m, item, fingerprint)
    IN IF key \in DOMAIN st.cache
       THEN [ok |-> TRUE, estimate |-> [st.cache[key] EXCEPT !.item = item],
             cache |-> st.cache, origin |-> st.origin]
       ELSE LET contents == load_selection_contents(fs, item) IN
            IF contents = None
            THEN [ok |-> FALSE, estimate |-> None, cache |-> st.cache, origin |-> st.origin]
            ELSE LET new == ComputeEstimate(est.heuristics, tokenizers, m, item, contents[1])
                 IN [ok |-> TRUE, estimate |-> new,
                     cache |-> MapInsert(st.cache, key, new),
                     origin |-> NoteOrigin(st.origin, key, fs[item.path].content)]

\* estimate_item on the state (cache, origin): Ok(estimate) or Err, and the
\* cache afterwards.
estimate_item(st, est, tokenizers, fs, m, item) ==
    LET fingerprint == file_fingerprint(fs, item.path)
        key == CacheKey(m, item, fingerprint)
    IN IF key \in DOMAIN st.cache
       THEN [ok |-> TRUE, estimate |-> st.cache[key], cache |-> st.cache, origin |-> st.origin]
       ELSE LET contents == load_selection_contents(fs, item) IN
            IF contents = None
            THEN [ok |-> FALSE, estimate |-> None, cache |-> st.cache, origin |-> st.origin]
            ELSE LET new == ComputeEstimate(est.heuristics, tokenizers, m, item, contents[1])
                 IN [ok |-> TRUE, estimate |-> new,
                     cache |-> MapInsert(st.cache, key, new),
                     origin |-> NoteOrigin(st.origin, key, fs[item.path].content)]

\* The for loop of estimate_bundle from item i on: the ? leaves at the first
\* Err, keeping what the earlier items put in the cache.
RECURSIVE BundleLoop(_, _, _, _, _, _, _, _)
BundleLoop(st, est, tokenizers, fs, m, bundle, i, acc) ==
    IF i >= Len(bundle.items)
    THEN [ok |-> TRUE, cache |-> st.cache, origin |-> st.origin,
          total_tokens |-> acc.total_tokens, total_characters |-> acc.total_characters,
          items |-> acc.items]
    ELSE LET res == estimate_item(st, est, tokenizers, fs, m, bundle.items[i + 1]) IN
         IF ~res.ok
         THEN [ok |-> FALSE, cache |-> res.cache, origin |-> res.origin,
               total_tokens |-> 0, total_characters |-> 0, items |-> <<>>]
         ELSE BundleLoop([cache |-> res.cache, origin |-> res.origin], est, tokenizers, fs,
                         m, bundle, i + 1,
                         [total_tokens |-> acc.total_tokens + res.estimate.tokens,
                          total_characters |-> acc.total_characters + res.estimate.characters,
                          items |-> Append(acc.items, res.estimate)])

\* Variant: the bundle's override is ignored.
ResolveModel_engine_only(est, bundle) == est.model

\* The model estimate_bundle resolves: the bundle's, when it parses.
ResolveModel(est, bundle) ==
    IF bundle.model # None /\ from_str(bundle.model[1]) # None
    THEN from_str(bundle.model[1])[1]
    ELSE est.model

\* Variant: the summary carries the default budget, not the configured one.
EstimateBundleResult_default_budget(st, est, tokenizers, fs, bundle) ==
    LET m == ResolveModel(est, bundle)
        loop == BundleLoop(st, est, tokenizers, fs, m, bundle, 0,
                           [total_tokens |-> 0, total_characters |-> 0, items |-> <<>>])
    IN [cache |-> loop.cache, origin |-> loop.origin,
        result |-> IF loop.ok
                   THEN [ok |-> TRUE, model |-> m, token_budget |-> 120000,
                         total_tokens |-> loop.total_tokens,
                         total_characters |-> loop.total_characters,
                         items |-> loop.items]
                   ELSE [ok |-> FALSE, model |-> m, token_budget |-> 0,
                         total_tokens |-> 0, total_characters |-> 0, items |-> <<>>]]

\* Variant: a failed call leaves the cache as it found it.
EstimateBundleResult_rolls_back(st, est, tokenizers, fs, bundle) ==
    LET m == ResolveModel(est, bundle)
        loop == BundleLoop(st, est, tokenizers, fs, m, bundle, 0,
                           [total_tokens |-> 0, total_characters |-> 0, items |-> <<>>])
    IN IF loop.ok
       THEN [cache |-> loop.cache, origin |-> loop.origin,
             result |-> [ok |-> TRUE, model |-> m, token_budget |-> est.token_budget,
                         total_tokens |-> loop.total_tokens,
                         total_characters |-> loop.total_characters,
                         items |-> loop.items]]
       ELSE [cache |-> st.cache, origin |-> st.origin,
             result |-> [ok |-> FALSE, model |-> m, token_budget |-> 0,
                         total_tokens |-> 0, total_characters |-> 0, items |-> <<>>]]

\* estimate_bundle: Ok(BundleTokenSummary) or Err, and the cache afterwards.
EstimateBundleResult(st, est, tokenizers, fs, bundle) ==
    LET m == ResolveModel(est, bundle)
        loop == BundleLoop(st, est, tokenizers, fs, m, bundle, 0,
                           [total_tokens |-> 0, total_characters |-> 0, items |-> <<>>])
    IN [cache |-> loop.cache, origin |-> loop.origin,
        result |-> IF loop.ok
                   THEN [ok |-> TRUE, model |-> m, token_budget |-> est.token_budget,
                         total_tokens |-> loop.total_tokens,
                         total_characters |-> loop.total_characters,
                         items |-> loop.items]
                   ELSE [ok |-> FALSE, model |-> m, token_budget |-> 0,
                         total_tokens |-> 0, total_characters |-> 0, items |-> <<>>]]

\* ------------------------------------------------------ engine operations
\* Most entries the cache holds.
MaxCache == 2

\* The bundles estimate_bundle is called with: one item, or an item of "a.rs"
\* followed by one of "b.md"; "a.rs" whole or its line 1, "b.md" whole.
ItemInputs ==
    {[path |-> "a.rs", range |-> None, note |-> None],
     [path |-> "a.rs", range |-> Some(<<1, 1>>), note |-> None],
     [path |-> "b.md", range |-> None, note |-> None]}
BundleInputs ==
    [items : {<<a>> : a \in ItemInputs}
                \cup {pair \in {<<a, b>> : a \in ItemInputs, b \in ItemInputs} :
                         pair[1].path = "a.rs" /\ pair[2].path = "b.md"},
     model : {None}]

ModelInputs == {"OpenAiGpt4oMini", "AnthropicClaude3Haiku"}
BudgetInputs == {120000, 42000}

BundlePaths(bundle) == {bundle.items[i].path : i \in 1..Len(bundle.items)}

NoResult ==
    [ok |-> FALSE, model |-> "", token_budget |-> 0, total_tokens |-> 0,
     total_characters |-> 0, items |-> <<>>]

\* No entry the bundle's items would hit was computed from another content
\* than the file has now.
NoStaleEntry(bundle) ==
    \A i \in 1..Len(bundle.items) :
        LET item == bundle.items[i]
            key == CacheKey(ResolveModel(estimator, bundle), item,
                            file_fingerprint(files, item.path))
        IN key \in DOMAIN cache =>
              files[item.path].kind = "ok" /\ origin[key] = files[item.path].content

estimate_bundle(bundle) ==
    LET res == EstimateBundleResult([cache |-> cache, origin |-> origin], estimator, bpe,
                                    files, bundle)
    IN /\ Cardinality(DOMAIN res.cache) <= MaxCache
       /\ cache' = res.cache
       /\ origin' = res.origin
       /\ lastEst' = [called |-> TRUE, bundle |-> bundle,
                      result |-> res.result,
                      fps |-> [p \in BundlePaths(bundle) |-> file_fingerprint(files, p)],
                      clean |-> NoStaleEntry(bundle),
                      again |-> /\ lastEst.called /\ lastEst.bundle = bundle
                                /\ lastEst.clean /\ lastEst.result.ok
                                /\ ~since.changed /\ since.invalidated # {}]
       /\ since' = [changed |-> FALSE, invalidated |-> {}]
       /\ UNCHANGED <<estimator, clone, onceVars, files, storeVars, concVars>>

\* Variant: the model is replaced and the cache kept.
SetModelResult_keeps_cache(est, map, from, m) ==
    [estimator |-> [est EXCEPT !.model = m], cache |-> map, origin |-> from]

\* SelectionManager::summarize_tokens on a store that has items: the bundle
\* of the store is estimated. (On an empty store it returns Ok(None).)
summarize_tokens ==
    /\ items # <<>>
    /\ estimate_bundle(BundleOf(items, model, None))

\* set_model on (engine, cache, origin): the three afterwards.
SetModelResult(est, map, from, m) ==
    IF est.model # m
    THEN [estimator |-> [est EXCEPT !.model = m], cache |-> EmptyMap, origin |-> EmptyMap]
    ELSE [estimator |-> est, cache |-> map, origin |-> from]

set_model(m) ==
    LET res == SetModelResult(estimator, cache, origin, m) IN
    /\ estimator' = res.estimator
    /\ cache' = res.cache
    /\ origin' = res.origin
    /\ since' = IF lastEst.called /\ estimator.model # m
                THEN [since EXCEPT !.changed = TRUE] ELSE since
    /\ UNCHANGED <<clone, onceVars, files, lastEst, storeVars, concVars>>

\* Variant: a new budget empties the cache.
SetTokenBudgetResult_clears_cache(est, map, from, budget) ==
    [estimator |-> [est EXCEPT !.token_budget = budget], cache |-> EmptyMap,
     origin |-> EmptyMap]

\* set_token_budget on (engine, cache, origin): the three afterwards.
SetTokenBudgetResult(est, map, from, budget) ==
    [estimator |-> [est EXCEPT !.token_budget = budget], cache |-> map, origin |-> from]

set_token_budget(budget) ==
    LET res == SetTokenBudgetResult(estimator, cache, origin, budget) IN
    /\ estimator' = res.estimator
    /\ cache' = res.cache
    /\ origin' = res.origin
    /\ since' = IF lastEst.called /\ estimator.token_budget # budget
                THEN [since EXCEPT !.changed = TRUE] ELSE since
    /\ UNCHANGED <<clone, onceVars, files, lastEst, storeVars, concVars>>

\* Variant: the parameters are replaced and the cache kept.
SetHeuristicsResult_keeps_cache(est, map, from, heuristics) ==
    [estimator |-> [est EXCEPT !.heuristics = heuristics], cache |-> map, origin |-> from]

\* set_heuristics on (engine, cache, origin): the three afterwards.
SetHeuristicsResult(est, map, from, heuristics) ==
    [estimator |-> [est EXCEPT !.heuristics = heuristics], cache |-> EmptyMap,
     origin |-> EmptyMap]

set_heuristics(heuristics) ==
    LET res == SetHeuristicsResult(estimator, cache, origin, heuristics) IN
    /\ estimator' = res.estimator
    /\ cache' = res.cache
    /\ origin' = res.origin
    /\ since' = IF lastEst.called THEN [since EXCEPT !.changed = TRUE] ELSE since
    /\ UNCHANGED <<clone, onceVars, files, lastEst, storeVars, concVars>>

\* Variant: the Mutex lets every caller in.
CanLock_always == TRUE

\* Mutex::lock returns once no caller holds the guard.
CanLock == lock = 0

\* A caller that has read the file of its item and not yet inserted the
\* entry: it is past the read of estimate_item and before the end of its
\* insert statement.
HasRead(c) == c.pc \in {"tokenizer", "init", "encode", "encoding", "insert", "writing"}

\* invalidate_path(path) as the callers see it: those that have read the path
\* are overtaken, the entries for the path are gone, and the contents of the
\* path count from here.
Overtake(path) ==
    inval' = [seen |-> [inval.seen EXCEPT ![path] = Readable(files[path])],
              readers |-> inval.readers
                  \cup {t \in DOMAIN callers :
                            HasRead(callers[t]) /\ callers[t].item.path = path},
              keys |-> {key \in inval.keys : key.path # path}]

\* An invalidation that drops nothing.
invalidate_path_keeps_cache(path) ==
    /\ CanLock
    /\ UNCHANGED <<cache, origin>>
    /\ since' = IF lastEst.called THEN [since EXCEPT !.invalidated = @ \cup {path}] ELSE since
    /\ Overtake(path)
    /\ UNCHANGED <<estimator, clone, onceVars, files, lastEst, storeVars, callers, lock, writing,
                   sawPartial>>

\* Variant: the invalidation clears the cache.
InvalidateResult_drops_all(map, path) == EmptyMap

\* Variant: the invalidation keeps every entry.
InvalidateResult_keeps_all(map, path) == map

\* cache.retain(|key, _| key.path != path)
InvalidateResult(map, path) == MapRetain(map, LAMBDA key : key.path # path)

invalidate_path(path) ==
    /\ CanLock
    /\ cache' = InvalidateResult(cache, path)
    /\ origin' = InvalidateResult(origin, path)
    /\ since' = IF lastEst.called THEN [since EXCEPT !.invalidated = @ \cup {path}] ELSE since
    /\ Overtake(path)
    /\ UNCHANGED <<estimator, clone, onceVars, files, lastEst, storeVars, callers, lock, writing,
                   sawPartial>>

\* The environment rewrites, touches, removes or protects a file.
FileChange(path, file) ==
    /\ file # files[path]
    /\ files' = [files EXCEPT ![path] = file]
    /\ since' = IF lastEst.called THEN [since EXCEPT !.changed = TRUE] ELSE since
    /\ inval' = [inval EXCEPT !.seen[path] = @ \cup Readable(file)]
    /\ UNCHANGED <<estimator, clone, cache, origin, onceVars, lastEst, storeVars, callers, lock,
                   writing, sawPartial>>

\* ------------------------------------------- concurrent callers of the engine
\* Two callers share the engine by reference.
Callers == {1, 2}

\* Each caller estimates the bundle of "a.rs", whole.
ConcBundles ==
    {[items |-> <<item>>, model |-> None] :
        item \in {i \in ItemInputs : i.path = "a.rs" /\ i.range = None}}

IdleCaller ==
    [pc |-> "idle", item |-> [path |-> "", range |-> None, note |-> None], m |-> "",
     key |-> None, estimate |-> None, content |-> "", ok |-> FALSE, left |-> <<>>,
     handled |-> 0]

\* The paths the callers estimate.
ConcPaths == {bundle.items[1].path : bundle \in ConcBundles}

\* estimate_bundle resolves the model; estimate_item takes the fingerprint
\* and builds the key.
Call(t, bundle) ==
    /\ callers[t].pc = "idle"
    /\ LET item == bundle.items[1]
           m == ResolveModel(estimator, bundle)
       IN callers' = [callers EXCEPT ![t] =
              [IdleCaller EXCEPT !.pc = "lookup", !.item = item, !.m = m,
                  !.key = Some(CacheKey(m, item, file_fingerprint(files, item.path))),
                  !.left = Tail(bundle.items), !.handled = 1]]
    /\ UNCHANGED <<cache, origin, estimator, clone, onceVars, files, lastEst, since, storeVars, lock,
                   writing, sawPartial, inval>>

\* self.cache.lock().unwrap().get(&key).cloned(): the guard is dropped at the
\* end of the statement.
Lookup(t) ==
    /\ callers[t].pc = "lookup"
    /\ CanLock
    /\ LET key == callers[t].key[1] IN
       /\ sawPartial' = (sawPartial \/ writing = Some(key))
       /\ callers' = [callers EXCEPT ![t] =
              IF key \in DOMAIN cache
              THEN [@ EXCEPT !.pc = "done", !.estimate = Some(cache[key]), !.ok = TRUE]
              ELSE [@ EXCEPT !.pc = "load"]]
    /\ UNCHANGED <<cache, origin, estimator, clone, onceVars, files, lastEst, since, storeVars, lock,
                   writing, inval>>

\* After a miss: read the file and count, outside the lock.
Load(t) ==
    /\ callers[t].pc = "load"
    /\ LET c == callers[t]
           contents == load_selection_contents(files, c.item)
       IN callers' = [callers EXCEPT ![t] =
              IF contents = None
              THEN [@ EXCEPT !.pc = "done", !.ok = FALSE]
              ELSE [@ EXCEPT !.pc = "insert",
                       !.estimate = Some(ComputeEstimate(estimator.heuristics, bpe, c.m,
                                                         c.item, contents[1])),
                       !.content = files[c.item.path].content]]
    /\ UNCHANGED <<cache, origin, estimator, clone, onceVars, files, lastEst, since, storeVars, lock,
                   writing, sawPartial, inval>>

\* self.cache.lock().unwrap() of the insert statement: the guard is taken and
\* HashMap::insert starts to write the entry.
InsertLock(t) ==
    /\ callers[t].pc = "insert"
    /\ CanLock
    /\ Cardinality(DOMAIN cache \cup {callers[t].key[1]}) <= MaxCache
    /\ lock' = t
    /\ writing' = callers[t].key
    /\ callers' = [callers EXCEPT ![t].pc = "writing"]
    /\ UNCHANGED <<cache, origin, estimator, clone, onceVars, files, lastEst, since, storeVars,
                   sawPartial, inval>>

\* Variant: the guard of the insert statement is never dropped.
InsertWrite_keeps_guard(t) ==
    /\ callers[t].pc = "writing"
    /\ LET c == callers[t] IN
       /\ cache' = MapInsert(cache, c.key[1], c.estimate[1])
       /\ origin' = NoteOrigin(origin, c.key[1], c.content)
    /\ lock' = lock
    /\ writing' = None
    /\ callers' = [callers EXCEPT ![t].pc = "done", ![t].ok = TRUE]
    /\ UNCHANGED <<estimator, clone, onceVars, files, lastEst, since, storeVars, sawPartial>>
    /\ inval' = [inval EXCEPT !.keys = IF t \in inval.readers
                                       THEN @ \cup {callers[t].key[1]}
                                       ELSE @ \ {callers[t].key[1]}]

\* HashMap::insert has written the entry; the guard is dropped.
InsertWrite(t) ==
    /\ callers[t].pc = "writing"
    /\ LET c == callers[t] IN
       /\ cache' = MapInsert(cache, c.key[1], c.estimate[1])
       /\ origin' = NoteOrigin(origin, c.key[1], c.content)
    /\ lock' = 0
    /\ writing' = None
    /\ callers' = [callers EXCEPT ![t].pc = "done", ![t].ok = TRUE]
    /\ UNCHANGED <<estimator, clone, onceVars, files, lastEst, since, storeVars, sawPartial>>
    /\ inval' = [inval EXCEPT !.keys = IF t \in inval.readers
                                       THEN @ \cup {callers[t].key[1]}
                                       ELSE @ \ {callers[t].key[1]}]

\* The tokenizer family tokenizer_for asks for: None for CharacterFallback.
FamilyOf(m) ==
    CASE m \in {"OpenAiGpt4o", "OpenAiGpt4oMini"} -> Some("o200k")
      [] m \in {"AnthropicClaude3Haiku", "AnthropicClaude35Sonnet"} -> Some("cl100k")
      [] OTHER -> None

\* After a miss: load_selection_contents reads the file, outside every lock.
\* count_tokens returns 0 for a blank text without asking for a tokenizer.
Read(t) ==
    /\ callers[t].pc = "load"
    /\ LET c == callers[t]
           contents == load_selection_contents(files, c.item)
       IN callers' = [callers EXCEPT ![t] =
              IF contents = None
              THEN [@ EXCEPT !.pc = "done", !.ok = FALSE]
              ELSE IF TrimIsEmpty(contents[1])
              THEN [@ EXCEPT !.pc = "insert", !.content = files[c.item.path].content,
                       !.estimate = Some(ComputeEstimate(estimator.heuristics, bpe, c.m,
                                                         c.item, contents[1]))]
              ELSE [@ EXCEPT !.pc = "tokenizer", !.content = files[c.item.path].content]]
    /\ UNCHANGED <<cache, origin, estimator, clone, onceVars, files, lastEst, since, storeVars, lock,
                   writing, sawPartial, inval>>

\* OnceLock::get_or_init on an empty cell: this caller runs the constructor,
\* every other caller of the cell waits until it has returned.
BeginInit(t) ==
    /\ callers[t].pc = "tokenizer"
    /\ FamilyOf(callers[t].m) # None
    /\ LET family == FamilyOf(callers[t].m)[1] IN
       /\ bpe[family] = "uninit"
       /\ bpe' = [bpe EXCEPT ![family] = "running"]
    /\ callers' = [callers EXCEPT ![t].pc = "init"]
    /\ UNCHANGED <<cache, origin, estimator, clone, built, bpeLock, files, lastEst, since, storeVars,
                   lock, writing, sawPartial, inval>>

\* Variant: a failed construction is not kept, the cell stays empty.
FinishInit_forgets_failure(t, outcome) ==
    /\ callers[t].pc = "init"
    /\ LET family == FamilyOf(callers[t].m)[1] IN
       /\ bpe' = [bpe EXCEPT ![family] = IF outcome = "err" THEN "uninit" ELSE outcome]
       /\ built' = [built EXCEPT ![family] = Min(@ + 1, 2)]
    /\ callers' = [callers EXCEPT ![t].pc = "tokenizer"]
    /\ UNCHANGED <<cache, origin, estimator, clone, bpeLock, files, lastEst, since, storeVars, lock,
                   writing, sawPartial, inval>>

\* o200k_base() / cl100k_base() returns Ok or Err; the cell keeps either.
FinishInit(t, outcome) ==
    /\ callers[t].pc = "init"
    /\ LET family == FamilyOf(callers[t].m)[1] IN
       /\ bpe' = [bpe EXCEPT ![family] = outcome]
       /\ built' = [built EXCEPT ![family] = @ + 1]
    /\ callers' = [callers EXCEPT ![t].pc = "tokenizer"]
    /\ UNCHANGED <<cache, origin, estimator, clone, bpeLock, files, lastEst, since, storeVars, lock,
                   writing, sawPartial, inval>>

\* tokenizer_for returns: Tokenizer::Bpe goes on to encode; Tokenizer::Heuristic
\* and Err(_) take the heuristic estimate.
UseTokenizer(t) ==
    /\ callers[t].pc = "tokenizer"
    /\ LET c == callers[t]
           family == FamilyOf(c.m)
       IN /\ family # None => bpe[family[1]] \in {"ok", "err"}
          /\ callers' = [callers EXCEPT ![t] =
                 IF family # None /\ bpe[family[1]] = "ok"
                 THEN [@ EXCEPT !.pc = "encode"]
                 ELSE [@ EXCEPT !.pc = "insert",
                          !.estimate = Some(ComputeEstimate(estimator.heuristics, bpe, c.m,
                                               c.item, SelectionText(c.content, c.item.range)))]]
    /\ UNCHANGED <<cache, origin, estimator, clone, onceVars, files, lastEst, since, storeVars, lock,
                   writing, sawPartial, inval>>

\* core.lock().unwrap(): the guard of the tokenizer's Mutex is taken.
EncodeLock(t) ==
    /\ callers[t].pc = "encode"
    /\ LET family == FamilyOf(callers[t].m)[1] IN
       /\ bpeLock[family] = 0
       /\ bpeLock' = [bpeLock EXCEPT ![family] = t]
    /\ callers' = [callers EXCEPT ![t].pc = "encoding"]
    /\ UNCHANGED <<cache, origin, estimator, clone, bpe, built, files, lastEst, since, storeVars,
                   lock, writing, sawPartial, inval>>

\* encode_ordinary(contents).len() is taken and the guard dropped.
EncodeDone(t) ==
    /\ callers[t].pc = "encoding"
    /\ LET c == callers[t]
           family == FamilyOf(c.m)[1]
       IN /\ bpeLock' = [bpeLock EXCEPT ![family] = 0]
          /\ callers' = [callers EXCEPT ![t] =
                 [@ EXCEPT !.pc = "insert",
                     !.estimate = Some(ComputeEstimate(estimator.heuristics, bpe, c.m, c.item,
                                          SelectionText(c.content, c.item.range)))]]
    /\ UNCHANGED <<cache, origin, estimator, clone, bpe, built, files, lastEst, since, storeVars,
                   lock, writing, sawPartial, inval>>

\* estimate_item returns Ok and the for loop takes the bundle's next item.
NextItem(t) ==
    /\ callers[t].pc = "done"
    /\ callers[t].ok /\ callers[t].left # <<>>
    /\ LET c == callers[t]
           item == Head(c.left)
       IN callers' = [callers EXCEPT ![t] =
              [IdleCaller EXCEPT !.pc = "lookup", !.item = item, !.m = c.m,
                  !.key = Some(CacheKey(c.m, item, file_fingerprint(files, item.path))),
                  !.left = Tail(c.left), !.handled = c.handled + 1]]
    /\ inval' = [inval EXCEPT !.readers = @ \ {t}]
    /\ UNCHANGED <<cache, origin, estimator, clone, onceVars, files, lastEst, since, storeVars, lock,
                   writing, sawPartial>>

\* estimate_bundle returns: the ? on an Err, or the summary after the last item.
Return(t) ==
    /\ callers[t].pc = "done"
    /\ ~callers[t].ok \/ callers[t].left = <<>>
    /\ callers' = [callers EXCEPT ![t] = IdleCaller]
    /\ inval' = [inval EXCEPT !.readers = @ \ {t}]
    /\ UNCHANGED <<cache, origin, estimator, clone, onceVars, files, lastEst, since, storeVars, lock,
                   writing, sawPartial>>

\* ------------------------------------------------------------ specification
\* TokenEstimator::default(): the default model, a budget of 120000 tokens,
\* the default heuristics, an empty cache; both files present; the
\* tokenizers of both families constructed.
Init ==
    /\ items = <<>>
    /\ model = None
    /\ last = [op |-> "new", path |-> "", whole |-> FALSE, irregular |-> FALSE, prior |-> 0,
               ret |-> FALSE]
    /\ added = [path \in Paths |-> {}]
    /\ returned = None
    /\ estimator = [model |-> "OpenAiGpt4oMini", token_budget |-> 120000,
                    heuristics |-> DefaultHeuristics]
    /\ clone = estimator
    /\ cache = EmptyMap
    /\ origin = EmptyMap
    /\ bpe = [family \in Families |-> "ok"]
    /\ built = [family \in Families |-> 1]
    /\ bpeLock = [family \in Families |-> 0]
    /\ files = [path \in Paths |-> InitialFile]
    /\ lastEst = [called |-> FALSE, bundle |-> [items |-> <<>>, model |-> None],
                  result |-> NoResult, fps |-> EmptyMap, clean |-> FALSE, again |-> FALSE]
    /\ since = [changed |-> FALSE, invalidated |-> {}]
    /\ callers = [t \in Callers |-> IdleCaller]
    /\ lock = 0
    /\ writing = None
    /\ sawPartial = FALSE
    /\ inval = [seen |-> [path \in Paths |-> Readable(InitialFile)], readers |-> {},
                keys |-> {}]

\* The selection store, driven by the command loop.
Next ==
    \/ \E path \in Paths, range \in RangeInputs, note \in NoteInputs :
           add_selection(path, range, note)
    \/ \E path \in Paths, range \in RangeInputs : remove_selection(path, range)
    \/ \E path \in Paths, range \in RangeInputs, note \in NoteInputs :
           set_note(path, range, note)
    \/ clear

Spec == Init /\ [][Next]_vars

\* The model strings the store is configured with, and the overrides.
StoreModelInputs == {"fallback", "gpt-5"}
BundleOverrides == {None, Some("openai:gpt-4o")}

\* The ranges the store of the bundles is filled with.
BundleRanges == {None, Some(<<1, 1>>), Some(<<MaxLine, MaxLine>>)}

\* The selection store with its model and the bundles taken from it.
NextBundle ==
    \/ \E path \in Paths, range \in BundleRanges : add_selection(path, range, None)
    \/ \E path \in Paths : remove_selection(path, None)
    \/ clear
    \/ \E m \in StoreModelInputs : manager_set_model(m)
    \/ clear_model
    \/ \E override_model \in BundleOverrides : to_bundle_with_model(override_model)
    \/ to_bundle

SpecBundle == Init /\ [][NextBundle]_vars

\* The store is filled with whole files, its notes are edited, and its
\* bundle is estimated by the engine.
NextNote ==
    \/ \E path \in Paths, note \in NoteInputs : add_selection(path, None, note)
    \/ \E path \in Paths, note \in NoteInputs : set_note(path, None, note)
    \/ \E path \in Paths : remove_selection(path, None)
    \/ summarize_tokens
    \/ \E path \in Paths : invalidate_path(path)

SpecNote == Init /\ [][NextNote]_vars

\* The estimation engine with one caller, over a changing file system.
NextEngine ==
    \/ \E bundle \in BundleInputs : estimate_bundle(bundle)
    \/ \E path \in Paths : invalidate_path(path)
    \/ \E path \in Paths : \E file \in FileStatesOf(path) : FileChange(path, file)

SpecEngine == Init /\ [][NextEngine]_vars

\* The estimation engine with two concurrent callers.
NextConc ==
    \/ \E t \in Callers, bundle \in ConcBundles : Call(t, bundle)
    \/ \E t \in Callers : Lookup(t)
    \/ \E t \in Callers : Load(t)
    \/ \E t \in Callers : InsertLock(t)
    \/ \E t \in Callers : InsertWrite(t)
    \/ \E t \in Callers : Return(t)
    \/ \E path \in ConcPaths : invalidate_path(path)
    \/ \E path \in ConcPaths : \E file \in FileStatesOf(path) : FileChange(path, file)

SpecConc == Init /\ [][NextConc]_vars

\* A process that has not asked for a tokenizer yet.
InitOnce ==
    /\ items = <<>>
    /\ model = None
    /\ last = [op |-> "new", path |-> "", whole |-> FALSE, irregular |-> FALSE, prior |-> 0,
               ret |-> FALSE]
    /\ added = [path \in Paths |-> {}]
    /\ returned = None
    /\ estimator = [model |-> "OpenAiGpt4oMini", token_budget |-> 120000,
                    heuristics |-> DefaultHeuristics]
    /\ clone = estimator
    /\ cache = EmptyMap
    /\ origin = EmptyMap
    /\ bpe = [family \in Families |-> "uninit"]
    /\ built = [family \in Families |-> 0]
    /\ bpeLock = [family \in Families |-> 0]
    /\ files = [path \in Paths |-> InitialFile]
    /\ lastEst = [called |-> FALSE, bundle |-> [items |-> <<>>, model |-> None],
                  result |-> NoResult, fps |-> EmptyMap, clean |-> FALSE, again |-> FALSE]
    /\ since = [changed |-> FALSE, invalidated |-> {}]
    /\ callers = [t \in Callers |-> IdleCaller]
    /\ lock = 0
    /\ writing = None
    /\ sawPartial = FALSE
    /\ inval = [seen |-> [path \in Paths |-> Readable(InitialFile)], readers |-> {},
                keys |-> {}]

\* The callers estimate "a.rs" under the engine's model, under an override of
\* the other tokenizer family, and under the model that has no tokenizer.
OnceBundles ==
    {[items |-> <<[path |-> "a.rs", range |-> None, note |-> None]>>, model |-> o] :
        o \in {None, Some("anthropic:claude-3-haiku")}}

\* "a.rs" as it starts, and removed.
OnceFiles == {InitialFile, [kind |-> "missing", mtime |-> 1, content |-> "A"]}

\* Two concurrent callers in a process whose tokenizers are built on demand.
NextOnce ==
    \/ \E t \in Callers, bundle \in OnceBundles : Call(t, bundle)
    \/ \E t \in Callers : Lookup(t)
    \/ \E t \in Callers : Read(t)
    \/ \E t \in Callers : BeginInit(t)
    \/ \E t \in Callers, outcome \in {"ok", "err"} : FinishInit(t, outcome)
    \/ \E t \in Callers : UseTokenizer(t)
    \/ \E t \in Callers : EncodeLock(t)
    \/ \E t \in Callers : EncodeDone(t)
    \/ \E t \in Callers : InsertLock(t)
    \/ \E t \in Callers : InsertWrite(t)
    \/ \E t \in Callers : Return(t)
    \/ \E path \in ConcPaths : invalidate_path(path)
    \/ \E file \in OnceFiles : FileChange("a.rs", file)

SpecOnce == InitOnce /\ [][NextOnce]_vars

\* The callers estimate "a.rs" and "b.md" in one bundle.
LiveBundles ==
    {[items |-> <<[path |-> "a.rs", range |-> None, note |-> None],
                  [path |-> "b.md", range |-> None, note |-> None]>>, model |-> None]}

\* "a.rs" as it starts, and with its read permission taken away.
LiveFiles == {InitialFile, [kind |-> "denied", mtime |-> 1, content |-> "A"]}

NextLive ==
    \/ \E t \in Callers, bundle \in LiveBundles : Call(t, bundle)
    \/ \E t \in Callers : Lookup(t)
    \/ \E t \in Callers : Read(t)
    \/ \E t \in Callers : BeginInit(t)
    \/ \E t \in Callers, outcome \in {"ok", "err"} : FinishInit(t, outcome)
    \/ \E t \in Callers : UseTokenizer(t)
    \/ \E t \in Callers : EncodeLock(t)
    \/ \E t \in Callers : EncodeDone(t)
    \/ \E t \in Callers : InsertLock(t)
    \/ \E t \in Callers : InsertWrite(t)
    \/ \E t \in Callers : NextItem(t)
    \/ \E t \in Callers : Return(t)
    \/ \E path \in Paths : invalidate_path(path)
    \/ \E file \in LiveFiles : FileChange("a.rs", file)

\* Fair scheduling: a caller's thread keeps running, so a step that stays
\* possible is taken; a Mutex that is free again and again is obtained at
\* some point. Calls, invalidations and file changes come from outside and
\* need never happen.
FairCaller(t) ==
    /\ SF_vars(Lookup(t))
    /\ WF_vars(Read(t))
    /\ WF_vars(BeginInit(t))
    /\ WF_vars(\E outcome \in {"ok", "err"} : FinishInit(t, outcome))
    /\ WF_vars(UseTokenizer(t))
    /\ SF_vars(EncodeLock(t))
    /\ WF_vars(EncodeDone(t))
    /\ SF_vars(InsertLock(t))
    /\ WF_vars(InsertWrite(t))
    /\ WF_vars(NextItem(t))
    /\ WF_vars(Return(t))

SpecLive == InitOnce /\ [][NextLive]_vars /\ \A t \in Callers : FairCaller(t)

\* The bundles of the configured engine: "a.rs" whole, with no override, an
\* override that parses (as written or once trimmed and lowered), one that
\* does not; and "a.rs" with "b.md" under no override.
OverrideInputs == {None, Some("fallback"), Some("OPENAI:GPT-4O"), Some("gpt-5")}

ConfigBundles ==
    {[items |-> <<[path |-> "a.rs", range |-> None, note |-> None]>>, model |-> o] :
             o \in OverrideInputs}
    \cup {[items |-> <<[path |-> "a.rs", range |-> None, note |-> None],
                       [path |-> "b.md", range |-> None, note |-> None]>>, model |-> None]}

\* "a.rs" as it starts, and rewritten at a later time.
ConfigFiles == {InitialFile, [kind |-> "ok", mtime |-> 2, content |-> "B"]}

\* The engine under every operation of its interface, "a.rs" being rewritten.
NextConfig ==
    \/ \E bundle \in ConfigBundles : estimate_bundle(bundle)
    \/ \E m \in ModelInputs : set_model(m)
    \/ \E budget \in BudgetInputs : set_token_budget(budget)
    \/ \E heuristics \in HeuristicInputs : set_heuristics(heuristics)
    \/ \E path \in Paths : invalidate_path(path)
    \/ \E file \in ConfigFiles : FileChange("a.rs", file)

SpecConfig == Init /\ [][NextConfig]_vars

\* ================================================================== claims
\* Entries of a path, as positions (1-based) of the item list.
EntriesOf(its, path) == {idx \in 1..Len(its) : its[idx].path = path}
WholeOf(its, path) == {idx \in EntriesOf(its, path) : its[idx].range = None}
RangedOf(its, path) == {idx \in EntriesOf(its, path) : its[idx].range # None}
RangesOf(its, path) == {its[idx].range[1] : idx \in RangedOf(its, path)}
OtherPaths(its, path) == SelectSeq(its, LAMBDA item : item.path # path)

\* C1: in every reachable store, a (path, range) pair is stored at most once,
\* a path has at most one whole-file entry, and a path with a whole-file
\* entry has no ranged entry.
C1_UniqueEntries ==
    \A path \in Paths :
        /\ \A i, j \in EntriesOf(items, path) : items[i].range = items[j].range => i = j
        /\ Cardinality(WholeOf(items, path)) <= 1
        /\ WholeOf(items, path) # {} => RangedOf(items, path) = {}

C1_Witness ==
    /\ last.op = "add_selection"
    /\ Cardinality(RangedOf(items, "a.rs")) = 2
    /\ WholeOf(items, "b.md") # {}
    /\ last.path = "b.md" /\ last.prior = 2

\* The maximal runs of consecutive lines of a set of lines: its minimal
\* cover by disjoint, non-touching ranges.
Runs(lines) ==
    {<<s, e>> \in lines \X lines :
        /\ s <= e
        /\ \A l \in s..e : l \in lines
        /\ (s - 1) \notin lines
        /\ (e + 1) \notin lines}

\* C2: merge closure. For a path without a whole-file entry, the stored
\* ranges are exactly the maximal runs of the union of the normalized ranges
\* added (so they cover that union, are pairwise disjoint and non-touching,
\* and do not depend on the order of the calls), each stored once; add (5,10)
\* then (9,15) leaves the single entry (5,15).
C2_MergeClosure ==
    /\ \A path \in Paths :
          ~HasWholeFile(items, path) =>
            /\ RangesOf(items, path) = Runs(added[path])
            /\ Cardinality(EntriesOf(items, path)) = Cardinality(Runs(added[path]))
            /\ UNION {LinesOf(r) : r \in RangesOf(items, path)} = added[path]
            /\ \A a, b \in RangesOf(items, path) :
                  a # b => (a[2] + 1 < b[1] \/ b[2] + 1 < a[1])
    /\ LET first == AddResult(<<>>, "a.rs", Some(<<5, 10>>), None)
           second == AddResult(first.items, "a.rs", Some(<<9, 15>>), None)
       IN /\ first.ret.range = Some(<<5, 10>>)
          /\ second.ret.range = Some(<<5, 15>>)
          /\ second.items = <<[path |-> "a.rs", range |-> Some(<<5, 15>>), note |-> None]>>

\* Three separate lines were added and the middle one joined them last.
C2_Witness ==
    /\ added["a.rs"] = 1..3
    /\ last.op = "add_selection" /\ last.path = "a.rs" /\ last.prior = 2
    /\ RangesOf(items, "a.rs") = {<<1, 3>>}

\* C3: whole-file supersession. After add_selection(p, None, note) the path
\* has exactly one entry, it has no range, and it is the returned item.
C3_WholeFileSupersedes ==
    (last.op = "add_selection" /\ last.whole) =>
        /\ Cardinality(EntriesOf(items, last.path)) = 1
        /\ \A idx \in EntriesOf(items, last.path) :
              items[idx].range = None /\ items[idx] = last.ret

C3_Witness ==
    /\ last.op = "add_selection" /\ last.whole /\ last.prior = 2
    /\ Cardinality(EntriesOf(items, last.path)) = 1

\* 1 <= start <= end
Normalized(range) == 1 <= range[1] /\ range[1] <= range[2]

\* The normal form of a raw range, stated independently of the code.
NormalForm(range) ==
    LET lo == IF range[1] <= range[2] THEN range[1] ELSE range[2]
        hi == IF range[1] <= range[2] THEN range[2] ELSE range[1]
    IN <<IF lo < 1 THEN 1 ELSE lo, IF hi < 1 THEN 1 ELSE hi>>

\* C9: every stored range and every range returned by add_selection is
\* normalized (1 <= start <= end); remove_selection and set_note match a raw
\* range by its normal form; (10,5) is handled as (5,10) and (0,0) as (1,1).
C9_RangesNormalized ==
    /\ \A idx \in 1..Len(items) : items[idx].range # None => Normalized(items[idx].range[1])
    /\ (last.op = "add_selection" /\ last.ret.range # None) => Normalized(last.ret.range[1])
    /\ \A raw \in RawRanges :
          /\ Normalized(normalize_range(raw))
          /\ normalize_range(raw) = NormalForm(raw)
          /\ \A path \in Paths :
                /\ RemoveResult(items, path, Some(raw)) =
                      SelectSeq(items, LAMBDA item :
                          ~(item.path = path /\ item.range = Some(NormalForm(raw))))
                /\ SetNoteMatch(items, path, MapNormalize(Some(raw))) =
                      {idx \in 0..(Len(items) - 1) :
                          /\ items[idx + 1].path = path
                          /\ items[idx + 1].range = Some(NormalForm(raw))}
    /\ normalize_range(<<10, 5>>) = <<5, 10>>
    /\ normalize_range(<<0, 0>>) = <<1, 1>>
    /\ AddResult(<<>>, "a.rs", Some(<<10, 5>>), None).ret.range = Some(<<5, 10>>)

\* A range given reversed or with a 0 bound was stored as (1,1) next to
\* another range of the path.
C9_Witness ==
    /\ last.op = "add_selection" /\ last.irregular
    /\ last.ret.range = Some(<<1, 1>>)
    /\ Cardinality(RangedOf(items, last.path)) = 2

\* C10: merge scope is per path. A call on path p leaves the entries of every
\* other path unchanged, in the same relative order.
C10_OtherPathsUntouched ==
    [][last'.op \in {"add_selection", "remove_selection", "set_note"} =>
          OtherPaths(items', last'.path) = OtherPaths(items, last'.path)]_vars

\* Both paths hold the same numeric range, unmerged, after an add on one.
C10_Witness ==
    /\ last.op = "add_selection" /\ last.path = "b.md"
    /\ RangesOf(items, "a.rs") = {<<1, 2>>}
    /\ RangesOf(items, "b.md") = {<<2, 3>>}
    /\ Len(items) >= 2

\* ------------------------------------------------------------ the engine
\* A step that is a call of estimate_bundle: only that call leaves `since`
\* reset.
EstimateStep == lastEst'.called /\ since' = [changed |-> FALSE, invalidated |-> {}]

\* The estimate has the counts of the item's file as it is now.
Fresh(est, m, item) ==
    /\ files[item.path].kind = "ok"
    /\ LET now == ComputeEstimate(estimator.heuristics, bpe, m, item,
                                  SelectionText(files[item.path].content, item.range))
       IN est.tokens = now.tokens /\ est.characters = now.characters

\* An entry for the item is cached under the fingerprint its file has now.
CachedUnderCurrent(m, item) ==
    \E key \in DOMAIN cache :
        /\ key.model = m /\ key.path = item.path /\ key.range = item.range
        /\ key.fingerprint = file_fingerprint(files, item.path)

\* The obligation of C4 on one call: for every item of a path that the previous
\* successful call estimated and that `must` selects, the counts are those of
\* the current content.
RecomputesWhen(must(_)) ==
    (EstimateStep /\ lastEst.called /\ lastEst.result.ok /\ lastEst'.result.ok) =>
        \A i \in 1..Len(lastEst'.bundle.items) :
            LET item == lastEst'.bundle.items[i] IN
            (item.path \in DOMAIN lastEst.fps /\ must(item)) =>
                Fresh(lastEst'.result.items[i], lastEst'.result.model, item)

\* C4 as claimed: after invalidate_path(p), or after the fingerprint of p
\* changed since the previous estimate, the next estimate_bundle returns the
\* counts of the current content of p.
C4_RecomputesAfterAnyFingerprintChange ==
    [][RecomputesWhen(LAMBDA item :
          \/ item.path \in since.invalidated
          \/ lastEst.fps[item.path] # file_fingerprint(files, item.path))]_vars

\* C4 as amended: after invalidate_path(p), or after the fingerprint of p
\* changed since the previous estimate to one under which no estimate of the
\* item is cached, the next estimate_bundle returns the counts of the
\* current content of p.
C4_RecomputesAfterInvalidationOrNewFingerprint ==
    [][RecomputesWhen(LAMBDA item :
          \/ item.path \in since.invalidated
          \/ /\ lastEst.fps[item.path] # file_fingerprint(files, item.path)
             /\ ~CachedUnderCurrent(lastEst'.result.model, item))]_vars

\* "a.rs" was estimated, rewritten with a new modification time and
\* estimated again: both estimates are cached, each from its own content.
C4_Witness ==
    /\ lastEst.called /\ lastEst.result.ok /\ ~since.changed
    /\ files["a.rs"] = [kind |-> "ok", mtime |-> 2, content |-> "B"]
    /\ \E k1, k2 \in DOMAIN cache :
          /\ k1.path = "a.rs" /\ k2.path = "a.rs" /\ k1.range = None /\ k2.range = None
          /\ k1.fingerprint # k2.fingerprint
          /\ origin[k1] = "A" /\ origin[k2] = "B"
          /\ cache[k1].tokens # cache[k2].tokens

\* Two summaries agree on the model, the totals and the per-item counts.
SameSummary(r1, r2) ==
    /\ r1.model = r2.model
    /\ r1.total_tokens = r2.total_tokens
    /\ r1.total_characters = r2.total_characters
    /\ Len(r1.items) = Len(r2.items)
    /\ \A i \in 1..Len(r1.items) :
          /\ r1.items[i].tokens = r2.items[i].tokens
          /\ r1.items[i].characters = r2.items[i].characters

\* A call of estimate_bundle on the bundle of the previous call, with the
\* files and the configuration unchanged in between, both successful.
RepeatedCall ==
    /\ EstimateStep /\ lastEst.called /\ ~since.changed
    /\ lastEst'.bundle = lastEst.bundle
    /\ lastEst.result.ok /\ lastEst'.result.ok

\* C5 as claimed: a repeated call returns the same model, totals and per-item
\* counts, served from the cache or recomputed.
C5_RepeatedCallSameSummary ==
    [][RepeatedCall => SameSummary(lastEst.result, lastEst'.result)]_vars

\* C5 as amended: the same, provided no cache entry the first call could hit
\* was computed from an earlier content of its file.
C5_RepeatedCallSameSummaryWithoutStaleEntry ==
    [][(RepeatedCall /\ lastEst.clean) => SameSummary(lastEst.result, lastEst'.result)]_vars

\* A repeated call that was recomputed after invalidate_path.
C5_Witness ==
    /\ lastEst.again /\ lastEst.result.ok
    /\ Len(lastEst.bundle.items) = 2
    /\ lastEst.result.total_tokens > 0

\* C6: estimate_bundle returns an error whenever the file of one of the
\* bundle's items cannot be read, cached or not; a summary covers every item.
C6_UnreadableFileFails ==
    (lastEst.called /\ ~since.changed) =>
        /\ (\E i \in 1..Len(lastEst.bundle.items) :
               files[lastEst.bundle.items[i].path].kind # "ok") => ~lastEst.result.ok
        /\ lastEst.result.ok => Len(lastEst.result.items) = Len(lastEst.bundle.items)

\* ------------------------------------------------------ concurrent callers
SameCounts(e1, e2) == e1.tokens = e2.tokens /\ e1.characters = e2.characters

\* The caller missed, read the file and computed its estimate.
Computed(c) == c.content # "" /\ c.estimate # None

C11_RemoveEveryEntryOfPath ==
    /\ \A path \in Paths :
          LET kept == RemoveResult(items, path, None) IN
          /\ EntriesOf(kept, path) = {}
          /\ kept = OtherPaths(items, path)
          /\ Len(kept) = Len(items) - CountPath(items, path)
          /\ RemoveReturn(items, path, None) = (CountPath(items, path) > 0)
    /\ (last.op = "remove_selection" /\ last.whole) =>
          /\ CountPath(items, last.path) = 0
          /\ last.ret = (last.prior > 0)

\* A path with two entries was removed whole; the other path's entry stays.
C11_Witness ==
    /\ last.op = "remove_selection" /\ last.whole /\ last.ret /\ last.prior = 2
    /\ CountPath(items, last.path) = 0
    /\ Len(items) = 1

\* C12: remove_selection(p, Some(r)) removes exactly the entry of p whose range
\* is the normal form of r: entries of p with another range, overlapping or
\* containing r or not, and a whole-file entry of p stay in place and in
\* order; it returns true exactly when an entry was removed, and the store is
\* unchanged when it returns false.
C12_RemoveExactRangeOnly ==
    /\ \A path \in Paths, raw \in RawRanges :
          LET kept == RemoveResult(items, path, Some(raw))
              target == Some(NormalForm(raw))
              matches == {idx \in EntriesOf(items, path) : items[idx].range = target}
          IN /\ kept = SelectSeq(items, LAMBDA item : ~(item.path = path /\ item.range = target))
             /\ RemoveReturn(items, path, Some(raw)) = (matches # {})
             /\ ~RemoveReturn(items, path, Some(raw)) => kept = items
    /\ (last.op = "remove_selection" /\ ~last.whole) =>
          CountPath(items, last.path) = last.prior - (IF last.ret THEN 1 ELSE 0)

\* One of the two ranges of a path was removed; the other stays.
C12_Witness ==
    /\ last.op = "remove_selection" /\ ~last.whole /\ last.ret /\ last.prior = 2
    /\ Cardinality(RangedOf(items, last.path)) = 1

\* The notes set_note is asked to store: absent, empty, blank, padded, plain.
NoteCases == NoteInputs \cup {Some(""), Some("y")}

\* The note to be stored for a request, stated independently of the code.
TrimmedNote(note) ==
    IF note = None \/ note[1] \in {"", " "} THEN None
    ELSE IF note[1] = " x " THEN Some("x") ELSE note

\* C13: set_note(p, range, note) gives the exactly matching entry (the
\* whole-file entry without a range, else the entry of the normalized range)
\* the trimmed note, or none when the note is absent, empty or blank; it
\* returns true exactly when that entry exists, changes no path, range, order
\* or length and no other entry's note, and changes nothing when it returns
\* false, as for a ranged request on a path held whole.
C13_SetNoteExactMatchOnly ==
    /\ \A path \in Paths, range \in RangeInputs, note \in NoteCases :
          LET res == SetNoteResult(items, path, range, note)
              target == IF range = None THEN None ELSE Some(NormalForm(range[1]))
              matches == {idx \in EntriesOf(items, path) : items[idx].range = target}
          IN /\ res.ret = (matches # {})
             /\ Len(res.items) = Len(items)
             /\ \A idx \in 1..Len(items) :
                   /\ res.items[idx].path = items[idx].path
                   /\ res.items[idx].range = items[idx].range
                   /\ res.items[idx].note =
                         IF idx \in matches THEN TrimmedNote(note) ELSE items[idx].note
             /\ ~res.ret => res.items = items
             /\ (range # None /\ HasWholeFile(items, path)) => ~res.ret
    /\ (last.op = "set_note" /\ ~last.whole /\ HasWholeFile(items, last.path)) => ~last.ret

\* set_note matched one of two ranges of a path and gave it the note "x"; the
\* other keeps none.
C13_Witness ==
    /\ last.op = "set_note" /\ last.ret /\ ~last.whole
    /\ \E i, j \in RangedOf(items, last.path) :
          items[i].note = Some("x") /\ items[j].note = None

\* C14: when p is held as a whole-file entry, add_selection(p, Some(r), note)
\* creates no entry and keeps length and order; a note that is not blank
\* becomes the whole-file entry's note, otherwise the store is unchanged; the
\* item returned is the whole-file entry as it then is.
C14_RangeIntoWholeFile ==
    /\ \A path \in Paths, range \in RangeInputs \ {None}, note \in NoteCases :
          HasWholeFile(items, path) =>
              LET res == AddResult(items, path, range, note)
                  whole == CHOOSE idx \in WholeOf(items, path) : TRUE
              IN /\ Len(res.items) = Len(items)
                 /\ \A idx \in 1..Len(items) : idx # whole => res.items[idx] = items[idx]
                 /\ res.items[whole].path = path /\ res.items[whole].range = None
                 /\ res.items[whole].note =
                       IF TrimmedNote(note) # None THEN TrimmedNote(note)
                       ELSE items[whole].note
                 /\ TrimmedNote(note) = None => res.items = items
                 /\ res.ret = res.items[whole]
    /\ (last.op = "add_selection" /\ ~last.whole /\ last.ret.range = None) =>
          /\ WholeOf(items, last.path) # {}
          /\ CountPath(items, last.path) = last.prior
          /\ \A idx \in WholeOf(items, last.path) : items[idx] = last.ret

\* A range with a note was added to a path held whole beside another path:
\* two entries as before, the whole-file entry carries the note.
C14_Witness ==
    /\ last.op = "add_selection" /\ ~last.whole /\ last.prior = 1
    /\ last.ret.range = None /\ last.ret.note = Some("x")
    /\ Len(items) = 2 /\ CountPath(items, last.path) = 1

\* ------------------------------------------------------------------- C15
\* The estimate at position i of a summary is the one of the bundle's item i.
InBundleOrder(bundle, result) ==
    /\ Len(result.items) = Len(bundle.items)
    /\ \A i \in 1..Len(bundle.items) :
          /\ result.items[i].item.path = bundle.items[i].path
          /\ result.items[i].item.range = bundle.items[i].range

\* C15: every successful estimate_bundle returns a summary with one estimate
\* per bundle item in bundle order, whose total_tokens and total_characters
\* are the sums of the per-item counts and whose token_budget is the budget
\* the engine is configured with when it is called.
C15_SummaryTotalsAndBudget ==
    /\ [](lastEst.called /\ lastEst.result.ok =>
            /\ InBundleOrder(lastEst.bundle, lastEst.result)
            /\ lastEst.result.total_tokens = SumOver(lastEst.result.items, "tokens")
            /\ lastEst.result.total_characters = SumOver(lastEst.result.items, "characters"))
    /\ [][EstimateStep /\ lastEst'.result.ok =>
            lastEst'.result.token_budget = estimator.token_budget]_vars

C15_Witness ==
    /\ lastEst.called /\ lastEst.result.ok /\ ~since.changed
    /\ Len(lastEst.bundle.items) = 2 /\ Len(lastEst.result.items) = 2
    /\ lastEst.result.items[1].tokens > 0 /\ lastEst.result.items[2].tokens > 0
    /\ lastEst.result.total_tokens
          = lastEst.result.items[1].tokens + lastEst.result.items[2].tokens
    /\ estimator.token_budget = 42000 /\ lastEst.result.token_budget = 42000

\* ------------------------------------------------------------------- C16
\* The model a call is to use: the override when there is one and it parses,
\* the engine's otherwise.
WantedModel(bundle) ==
    IF bundle.model = None THEN estimator.model
    ELSE IF from_str(bundle.model[1]) = None THEN estimator.model
    ELSE from_str(bundle.model[1])[1]

\* C16: the model reported in a summary, used in every cache key the call
\* inserts and behind every count it returns, is the bundle's override parsed
\* when one is present and valid; with no override or one that does not parse
\* it is the engine's current model, and the call raises no error for that.
C16_OverrideOrEngineModel ==
    [][EstimateStep =>
         LET bundle == lastEst'.bundle
             m == WantedModel(bundle)
         IN /\ \A key \in DOMAIN cache' \ DOMAIN cache : key.model = m
            /\ (\A p \in BundlePaths(bundle) : files[p].kind = "ok") => lastEst'.result.ok
            /\ lastEst'.result.ok =>
                  /\ lastEst'.result.model = m
                  /\ \A i \in 1..Len(bundle.items) :
                        LET key == CacheKey(m, bundle.items[i],
                                            file_fingerprint(files, bundle.items[i].path))
                        IN /\ key \in DOMAIN cache'
                           /\ lastEst'.result.items[i] = cache'[key]]_vars

C16_Witness ==
    /\ lastEst.called /\ lastEst.result.ok /\ ~since.changed
    /\ lastEst.bundle.model = Some("gpt-5")
    /\ lastEst.result.model = estimator.model
    /\ \E k1, k2 \in DOMAIN cache :
          /\ k1.model = "OpenAiGpt4o" /\ k1.model # estimator.model
          /\ k2.model = estimator.model

\* ------------------------------------------------------------------- C17
\* C17: set_model(m) with m different from the current model empties the
\* entire cache and makes m the model; with m equal to the current model it
\* leaves the cache and the model unchanged.
C17_SetModelClearsOnlyOnChange ==
    /\ [](\A m \in TokenModels :
            LET res == SetModelResult(estimator, cache, origin, m) IN
            IF m # estimator.model
            THEN /\ res.cache = EmptyMap
                 /\ res.estimator = [estimator EXCEPT !.model = m]
            ELSE /\ res.cache = cache
                 /\ res.estimator = estimator)
    /\ [][estimator'.model # estimator.model => cache' = EmptyMap]_vars

C17_Witness ==
    /\ lastEst.called /\ lastEst.result.ok /\ lastEst.bundle.model = None
    /\ lastEst.result.model = "OpenAiGpt4oMini"
    /\ since.changed /\ since.invalidated = {}
    /\ estimator.model = "AnthropicClaude3Haiku"
    /\ estimator.heuristics = DefaultHeuristics
    /\ cache = EmptyMap

\* ------------------------------------------------------------------- C18
\* The estimate is what the engine's current parameters give for the content
\* the entry under `key` was computed from.
UnderCurrentParameters(est, key, from) ==
    SameCounts(est, ComputeEstimate(estimator.heuristics, bpe, key.model,
                                    [path |-> key.path, range |-> key.range, note |-> None],
                                    SelectionText(from[key], key.range)))

\* C18: set_heuristics(c) replaces the heuristic parameters and empties the
\* entire cache, so that every estimate the cache holds, and every estimate a
\* later estimate_bundle returns, was computed under the current parameters.
C18_SetHeuristicsClearsCache ==
    /\ [](\A heuristics \in HeuristicInputs :
            LET res == SetHeuristicsResult(estimator, cache, origin, heuristics) IN
            /\ res.cache = EmptyMap
            /\ res.estimator = [estimator EXCEPT !.heuristics = heuristics])
    /\ [](\A key \in DOMAIN cache : UnderCurrentParameters(cache[key], key, origin))
    /\ [][EstimateStep /\ lastEst'.result.ok =>
            \A i \in 1..Len(lastEst'.bundle.items) :
                LET item == lastEst'.bundle.items[i]
                    key == CacheKey(lastEst'.result.model, item,
                                    file_fingerprint(files, item.path))
                IN UnderCurrentParameters(lastEst'.result.items[i], key, origin')]_vars

C18_Witness ==
    /\ lastEst.called /\ lastEst.result.ok /\ ~since.changed
    /\ lastEst.result.model = "CharacterFallback"
    /\ estimator.heuristics # DefaultHeuristics
    /\ \E key \in DOMAIN cache :
          /\ key.model = "CharacterFallback"
          /\ cache[key] = lastEst.result.items[1]
          /\ cache[key].tokens
                # ComputeEstimate(DefaultHeuristics, bpe, key.model,
                                  [path |-> key.path, range |-> key.range, note |-> None],
                                  SelectionText(origin[key], key.range)).tokens

\* ------------------------------------------------------------------- C19
\* The map without the entries of a path, every other entry as it was.
WithoutPath(map, path) == [k \in {x \in DOMAIN map : x.path # path} |-> map[k]]

\* C19: invalidate_path(p) removes every cache entry whose key path equals p,
\* whatever its model, range and fingerprint, and leaves the entries of other
\* paths and the engine's model, budget and heuristic parameters untouched.
C19_InvalidateRemovesThePath ==
    /\ [](\A path \in Paths :
            LET kept == InvalidateResult(cache, path) IN
            /\ \A key \in DOMAIN kept : key.path # path
            /\ kept = WithoutPath(cache, path))
    /\ [][since'.invalidated # since.invalidated /\ since'.invalidated # {} =>
            /\ estimator' = estimator
            /\ \E path \in since'.invalidated \ since.invalidated :
                  cache' = WithoutPath(cache, path)]_vars

C19_Witness ==
    /\ lastEst.called /\ lastEst.result.ok /\ Len(lastEst.bundle.items) = 2
    /\ since.invalidated = {"a.rs"} /\ ~since.changed
    /\ estimator.model = "AnthropicClaude3Haiku" /\ estimator.token_budget = 42000
    /\ DOMAIN cache # {}
    /\ \A key \in DOMAIN cache : key.path = "b.md"

\* ------------------------------------------------------------------- C20
\* The keys the call's items look up.
LookedUp(bundle, m) ==
    {CacheKey(m, bundle.items[i], file_fingerprint(files, bundle.items[i].path)) :
        i \in 1..Len(bundle.items)}

\* The step is a set_model to another model, a set_heuristics, or an
\* invalidate_path of the path, as seen from their effects.
SetModelStep == estimator'.model # estimator.model /\ cache' = EmptyMap
SetHeuristicsStep ==
    /\ estimator' = [estimator EXCEPT !.heuristics = estimator'.heuristics]
    /\ since'.changed /\ files' = files /\ lastEst' = lastEst
    /\ cache' = EmptyMap
InvalidateStep(path) ==
    /\ path \in since'.invalidated
    /\ estimator' = estimator /\ files' = files /\ lastEst' = lastEst
    /\ cache' = WithoutPath(cache, path)

\* C20: a cache entry enters only when an estimate_bundle call misses on its
\* key, and leaves only through invalidate_path of its path, set_model to a
\* different model, or set_heuristics; estimate_bundle never removes or
\* touches the entry of a key it did not miss on, so the entries stored under
\* outdated fingerprints stay in the cache.
C20_CacheLifecycle ==
    [][/\ \A key \in DOMAIN cache' \ DOMAIN cache :
            /\ EstimateStep
            /\ key \in LookedUp(lastEst'.bundle, WantedModel(lastEst'.bundle))
       /\ EstimateStep =>
            \A key \in DOMAIN cache : key \in DOMAIN cache' /\ cache'[key] = cache[key]
       /\ \A key \in DOMAIN cache \ DOMAIN cache' :
            SetModelStep \/ SetHeuristicsStep \/ InvalidateStep(key.path)
       /\ \A key \in DOMAIN cache \cap DOMAIN cache' : cache'[key] = cache[key]]_vars

C20_Witness ==
    /\ lastEst.called /\ lastEst.result.ok /\ ~since.changed /\ since.invalidated = {}
    /\ \E k1, k2 \in DOMAIN cache :
          /\ k1.model = k2.model /\ k1.path = "a.rs" /\ k2.path = "a.rs"
          /\ k1.range = k2.range
          /\ k1.fingerprint # file_fingerprint(files, "a.rs")
          /\ k2.fingerprint = file_fingerprint(files, "a.rs")
          /\ lastEst.result.items[1] = cache[k2]
          /\ origin[k1] # origin[k2]

\* ------------------------------------------------------------------- C21
\* Nothing happened to the engine or the files since the last call returned
\* its summary.
JustEstimated ==
    /\ lastEst.called /\ lastEst.result.ok
    /\ ~since.changed /\ since.invalidated = {}

\* C21: set_token_budget(b) changes only the stored budget: the cache and the
\* model are unchanged, a following estimate_bundle on unchanged files is
\* served from the cache with the same token and character counts, and its
\* summary reports budget b.
C21_BudgetOnlyStored ==
    /\ [](\A budget \in BudgetInputs :
            LET res == SetTokenBudgetResult(estimator, cache, origin, budget) IN
            /\ res.cache = cache
            /\ res.estimator = [estimator EXCEPT !.token_budget = budget]
            /\ JustEstimated =>
                 LET next == EstimateBundleResult([cache |-> res.cache, origin |-> res.origin],
                                                  res.estimator, bpe, files, lastEst.bundle)
                 IN /\ next.result.ok
                    /\ next.cache = cache
                    /\ next.result.token_budget = budget
                    /\ next.result.model = lastEst.result.model
                    /\ next.result.total_tokens = lastEst.result.total_tokens
                    /\ next.result.total_characters = lastEst.result.total_characters
                    /\ \A i \in 1..Len(lastEst.result.items) :
                          SameCounts(next.result.items[i], lastEst.result.items[i]))
    /\ [][estimator'.token_budget # estimator.token_budget =>
            /\ cache' = cache
            /\ estimator' = [estimator EXCEPT !.token_budget = estimator'.token_budget]]_vars

C21_Witness ==
    /\ lastEst.called /\ lastEst.result.ok /\ Len(lastEst.bundle.items) = 2
    /\ lastEst.result.token_budget = 120000 /\ estimator.token_budget = 42000
    /\ since.changed /\ since.invalidated = {}
    /\ estimator.model = lastEst.result.model
    /\ LookedUp(lastEst.bundle, lastEst.result.model) \subseteq DOMAIN cache
    /\ Cardinality(DOMAIN cache) = 2

\* ------------------------------------------------------------------- C22
\* Texts of no, one and two lines.
TextInputs ==
    {[lines |-> SubSeq(FileText("A").lines, 1, n), nl |-> FALSE] : n \in 0..2}
        \cup {FileText(content) : content \in Contents}

\* Lines start through min(end, n) of the lines, 1-based and inclusive.
WantedLines(lines, start, end) ==
    LET lo == Max(start, 1)
        hi == Min(end, Len(lines))
    IN IF hi < lo THEN <<>> ELSE [k \in 1..(hi - lo + 1) |-> lines[lo + k - 1]]

\* C22: for an item with range (start, end) over a file of n lines, the text
\* that is counted is exactly lines start through min(end, n), 1-based and
\* inclusive; it is empty when start > n; and no range, normalized or not,
\* makes the extraction index outside the file's lines.
C22_RangeSliceClamped ==
    /\ \A text \in TextInputs, range \in RawRanges :
          LET n == Len(text.lines)
              bounds == SliceBounds(n, range)
          IN /\ bounds # None =>
                   bounds[1][1] <= bounds[1][2] /\ bounds[1][2] <= n
             /\ SliceLines(text, range).lines = WantedLines(text.lines, range[1], range[2])
             /\ range[1] > n => SliceLines(text, range).lines = <<>>
    /\ \A key \in DOMAIN cache :
          key.range # None =>
             cache[key].characters
                = CharCount([lines |-> WantedLines(FileText(origin[key]).lines,
                                                   key.range[1][1], key.range[1][2]),
                             nl |-> FALSE])

C22_Witness ==
    /\ lastEst.called /\ lastEst.result.ok /\ ~since.changed
    /\ lastEst.bundle.items[1].range = Some(<<1, 1>>)
    /\ files["a.rs"].content = "B"
    /\ lastEst.result.items[1].characters = 3
    /\ SliceBounds(2, <<0, MaxLine>>) = Some(<<0, 2>>)
    /\ SliceBounds(2, <<MaxLine, 1>>) = None

\* ------------------------------------------------------------------- C23
\* Parameter settings beside the ones the engine is given here: no weight on
\* words and on code, no characters per token, negative parameters.
HeuristicCases ==
    HeuristicInputs
        \cup {[default_chars_per_token |-> 40, anthropic_chars_per_token |-> 32,
               tokens_per_word |-> 0, code_token_multiplier |-> 0],
              [default_chars_per_token |-> 0, anthropic_chars_per_token |-> 0,
               tokens_per_word |-> 10, code_token_multiplier |-> 125],
              [default_chars_per_token |-> -10, anthropic_chars_per_token |-> -10,
               tokens_per_word |-> -10, code_token_multiplier |-> -100]}

\* The texts of C22 and texts of whitespace only.
BlankCases ==
    {[lines |-> <<>>, nl |-> FALSE],
     [lines |-> <<[chars |-> 2, words |-> 0]>>, nl |-> TRUE],
     [lines |-> <<[chars |-> 0, words |-> 0], [chars |-> 1, words |-> 0]>>, nl |-> FALSE]}

HasNonWhitespace(text) == \E i \in 1..Len(text.lines) : text.lines[i].words > 0

\* C23: for every model and every heuristic parameter setting, an item whose
\* extracted text is empty or whitespace-only gets exactly 0 tokens, and an
\* item whose text has a non-whitespace character gets at least 1 token, also
\* after the code-density multiplier is applied.
C23_ZeroOnlyForBlankText ==
    /\ \A heuristics \in HeuristicCases, m \in TokenModels, path \in Paths,
          tokenizers \in [Families -> {"ok", "err"}], text \in TextInputs \cup BlankCases :
          LET item == [path |-> path, range |-> None, note |-> None]
              tokens == count_tokens(heuristics, tokenizers, m, item, text)
              heuristic == estimate(heuristics, text, m, is_probably_code(path))
          IN IF HasNonWhitespace(text)
             THEN tokens >= 1 /\ heuristic >= 1
             ELSE tokens = 0 /\ heuristic = 0
    /\ \A key \in DOMAIN cache :
          (cache[key].tokens = 0) = ~HasNonWhitespace(SelectionText(origin[key], key.range))

C23_Witness ==
    /\ lastEst.called /\ lastEst.result.ok /\ ~since.changed
    /\ lastEst.result.model = "CharacterFallback"
    /\ estimator.heuristics # DefaultHeuristics
    /\ lastEst.bundle.items[1].path = "a.rs"
    /\ lastEst.result.items[1].tokens
          = estimate(estimator.heuristics, SelectionText(files["a.rs"].content, None),
                     "CharacterFallback", TRUE)
    /\ lastEst.result.items[1].tokens > 1

\* ------------------------------------------------------------------- C24
\* The heuristic estimate of the text an entry or a caller's estimate was
\* computed from.
HeuristicTokens(m, item, content) ==
    estimate(estimator.heuristics, SelectionText(content, item.range), m,
             is_probably_code(item.path))

\* C24: each exact tokenizer family is constructed at most once per process,
\* also when several concurrent callers ask for it first; every later request
\* gets the instance or the failure the cell holds. A construction failure
\* makes the count the heuristic one and is never an error of estimate_bundle:
\* a call fails only on a file it cannot read.
C24_TokenizerBuiltOnce ==
    /\ [](\A family \in Families :
            /\ built[family] <= 1
            /\ (built[family] = 1) = (bpe[family] \in {"ok", "err"})
            /\ Cardinality({t \in Callers : /\ callers[t].pc = "init"
                                            /\ FamilyOf(callers[t].m) = Some(family)}) <= 1)
    /\ [][\A family \in Families :
            bpe[family] \in {"ok", "err"} =>
                bpe'[family] = bpe[family] /\ built'[family] = built[family]]_vars
    /\ [](\A key \in DOMAIN cache :
            (FamilyOf(key.model) # None /\ bpe[FamilyOf(key.model)[1]] = "err") =>
                cache[key].tokens
                    = HeuristicTokens(key.model, [path |-> key.path, range |-> key.range],
                                      origin[key]))
    /\ [][\A t \in Callers :
            (callers[t].pc # "done" /\ callers'[t].pc = "done" /\ ~callers'[t].ok) =>
                callers[t].pc = "load" /\ files[callers[t].item.path].kind # "ok"]_vars

C24_Witness ==
    /\ built["o200k"] = 1 /\ bpe["o200k"] = "err"
    /\ \A t \in Callers :
          /\ callers[t].pc = "insert" /\ callers[t].m = "OpenAiGpt4oMini"
          /\ callers[t].estimate # None
          /\ callers[t].estimate[1].tokens
                = HeuristicTokens(callers[t].m, callers[t].item, callers[t].content)
          /\ callers[t].estimate[1].tokens
                # encode_ordinary_len("o200k", SelectionText(callers[t].content, None))

\* ------------------------------------------------------------------- C25
\* C25: every estimate_bundle call terminates, with a summary or an IO error,
\* after handling each bundle item at most once, also with several callers
\* sharing the cache and the tokenizers: no caller holds the cache lock and a
\* tokenizer lock at the same time, the cache lock is held only while an
\* entry is written, never across a file read or a tokenization, and under
\* fair scheduling no caller waits forever.
C25_EveryCallReturns ==
    /\ \A t \in Callers : (callers[t].pc # "idle") ~> (callers[t].pc = "idle")
    /\ [](\A t \in Callers :
            /\ lock = t => callers[t].pc = "writing" /\ \A f \in Families : bpeLock[f] # t
            /\ (\E f \in Families : bpeLock[f] = t) => callers[t].pc = "encoding")
    /\ [][\A t \in Callers :
            /\ (callers[t].pc = "idle" /\ callers'[t].pc # "idle") =>
                  \E bundle \in LiveBundles :
                      callers'[t].handled + Len(callers'[t].left) = Len(bundle.items)
            /\ (callers[t].pc # "idle" /\ callers'[t].pc # "idle") =>
                  /\ callers'[t].handled + Len(callers'[t].left)
                        = callers[t].handled + Len(callers[t].left)
                  /\ callers'[t].handled >= callers[t].handled]_vars

C25_Witness ==
    /\ callers[1].pc = "writing" /\ lock = 1 /\ callers[1].handled = 2
    /\ callers[1].left = <<>>
    /\ callers[2].pc = "encoding" /\ bpeLock["o200k"] = 2 /\ callers[2].handled = 1

\* ------------------------------------------------------------------- C26
EmptyBundle == [items |-> <<>>, model |-> None]

\* C26: clear() leaves the store with zero items and no configured model from
\* any state; a following to_bundle() returns a bundle with no items and no
\* model.
C26_ClearEmptiesStoreAndModel ==
    /\ [](last.op = "clear" =>
            /\ items = <<>> /\ model = None
            /\ BundleOf(items, model, None) = EmptyBundle)
    /\ [][(last.op = "clear" /\ last'.op = "to_bundle") => returned' = Some(EmptyBundle)]_vars

C26_Witness ==
    /\ last.op = "clear" /\ last.prior = 2
    /\ returned # None /\ Len(returned[1].items) = 2 /\ returned[1].model = Some("gpt-5")
    /\ items = <<>> /\ model = None

\* ------------------------------------------------------------------- C27
ToBundleStep == last'.op \in {"to_bundle", "to_bundle_with_model"}

\* C27: to_bundle_with_model(o) returns a bundle whose items are the store's
\* items in store order and whose model is o when o is given, else the
\* store's configured model, else none; the call does not modify the store,
\* and later store mutations do not alter a bundle already returned.
C27_BundleIsSnapshot ==
    /\ [](\A o \in BundleOverrides \cup {Some("gpt-5")} :
            LET bundle == BundleOf(items, model, o) IN
            /\ bundle.items = items
            /\ o # None => bundle.model = o
            /\ (o = None /\ model # None) => bundle.model = model
            /\ (o = None /\ model = None) => bundle.model = None)
    /\ [][ToBundleStep =>
            /\ items' = items /\ model' = model
            /\ returned' # None /\ returned'[1].items = items
            /\ returned'[1].model \in {model} \cup BundleOverrides
            /\ last'.op = "to_bundle" => returned'[1].model = model]_vars
    /\ [][~ToBundleStep => returned' = returned]_vars

C27_Witness ==
    /\ returned # None
    /\ returned[1].model = Some("openai:gpt-4o") /\ model = Some("fallback")
    /\ Len(returned[1].items) = 2 /\ returned[1].items[1].path = "b.md"
    /\ last.op = "remove_selection" /\ last.ret
    /\ Len(items) = 1 /\ items # returned[1].items

\* ------------------------------------------------------------------- C28
\* Every Vec::remove of the reverse loop over merged_indices is given an index
\* below the length the list has at that moment.
RECURSIVE RemovalsInBounds(_, _)
RemovalsInBounds(its, merged_indices) ==
    IF merged_indices = <<>> THEN TRUE
    ELSE LET idx == merged_indices[Len(merged_indices)] IN
         /\ 0 <= idx /\ idx < Len(its)
         /\ RemovalsInBounds(VecRemove(its, idx),
                             SubSeq(merged_indices, 1, Len(merged_indices) - 1))

\* The indices add_selection uses on the list are within its bounds.
AddInBounds(its, path, range, note) ==
    LET item == [path |-> path, range |-> MapNormalize(range), note |-> AndThenClean(note)]
    IN IF item.range = None
       THEN LET loop == EntireFileLoop(its, path, 0, None, item.note)
                position == IF loop.insert_at = None THEN Len(loop.items)
                            ELSE loop.insert_at[1]
            IN 0 <= position /\ position <= Len(loop.items)
       ELSE LET loop == RangeLoop(its, item, 0, item.range[1], <<>>, item.note) IN
            \/ loop.early
            \/ LET rest == RemoveMerged(its, loop.merged_indices)
                   position == InsertPosition(rest, path, loop.range)
               IN /\ RemovalsInBounds(its, loop.merged_indices)
                  /\ Len(rest) = Len(its) - Len(loop.merged_indices)
                  /\ 0 <= position /\ position <= Len(rest)

\* C28: selection mutations never fail: from every reachable store state and
\* for every input (any path, any range including 0 bounds and reversed
\* bounds, any note), add_selection, remove_selection, set_note and clear
\* complete; every index add_selection uses to remove merged entries and to
\* insert the result is within the bounds of the item list, and a missing
\* match is reported only through a false return value.
C28_MutationsNeverFail ==
    /\ \A path \in Paths, range \in RangeInputs, note \in NoteCases :
          /\ AddInBounds(items, path, range, note)
          /\ LET res == AddResult(items, path, range, note) IN
             /\ Len(res.items) >= 1 /\ Len(res.items) <= Len(items) + 1
             /\ \E idx \in 1..Len(res.items) : res.items[idx] = res.ret
          /\ LET res == SetNoteResult(items, path, range, note) IN
             /\ res.ret \in BOOLEAN
             /\ Len(res.items) = Len(items)
             /\ ~res.ret => res.items = items
    /\ \A path \in Paths, range \in RangeInputs :
          /\ RemoveReturn(items, path, range) \in BOOLEAN
          /\ Len(RemoveResult(items, path, range)) <= Len(items)
          /\ ~RemoveReturn(items, path, range) => RemoveResult(items, path, range) = items

C28_Witness ==
    /\ last.op = "add_selection" /\ ~last.whole /\ last.irregular
    /\ last.prior = 2 /\ CountPath(items, last.path) = 1
    /\ Len(items) = 2 /\ items[1].path # last.path /\ items[2].path = last.path

\* ------------------------------------------------------------------- C29
\* C29 as claimed: in every summary returned by estimate_bundle, the item
\* snapshot of the i-th per-item estimate equals the i-th item of the bundle
\* that was passed in (path, range and note), also when the estimate is served
\* from the cache after set_note changed the item's note.
C29_SnapshotIsBundleItem ==
    (lastEst.called /\ lastEst.result.ok) =>
        \A i \in 1..Len(lastEst.bundle.items) :
            lastEst.result.items[i].item = lastEst.bundle.items[i]

\* C29 as amended: the i-th per-item estimate of a summary has the path and
\* the range of the i-th bundle item; its snapshot is the bundle's item when
\* this call computed the estimate, and the snapshot stored in the cache,
\* with the note the item had when the entry was cached, when the call hit.
C29_SnapshotIsCachedItem ==
    [][EstimateStep /\ lastEst'.result.ok =>
         \A i \in 1..Len(lastEst'.bundle.items) :
             LET item == lastEst'.bundle.items[i]
                 got == lastEst'.result.items[i]
                 key == CacheKey(lastEst'.result.model, item,
                                 file_fingerprint(files, item.path))
             IN /\ got.item.path = item.path /\ got.item.range = item.range
                /\ IF key \in DOMAIN cache
                   THEN got.item = cache[key].item
                   ELSE got.item = item]_vars

C29_Witness ==
    /\ lastEst.called /\ lastEst.result.ok /\ ~since.changed /\ since.invalidated = {}
    /\ lastEst.bundle.items = items
    /\ items[1].note = Some("x")
    /\ lastEst.result.items[1].item.note = None
    /\ lastEst.result.items[1].item.path = items[1].path


\* ------------------------------------------------------------------ C30
\* The entries an overtaken caller inserted: computed from a content read
\* before the last invalidate_path of their path.
ReadBeforeInvalidation == inval.keys \cap DOMAIN cache

\* C30 as claimed: when invalidate_path(p) runs while an estimate of p is in
\* flight (content read, entry not inserted), then once both have finished
\* the cache holds no entry for p computed from content read before the
\* invalidation.
C30_NoEntryReadBeforeInvalidation ==
    (\A t \in inval.readers : ~HasRead(callers[t])) => ReadBeforeInvalidation = {}

\* C30 as amended: invalidate_path(p) removes the entries for p that are in
\* the cache when it runs and nothing more. Every entry for p in the cache
\* afterwards was computed from a content the file had at or after the
\* invalidation, except the entries inserted by the estimates that were in
\* flight when it ran: those are computed from the content read before.
C30_OnlyOvertakenEntriesPredateInvalidation ==
    \A key \in DOMAIN cache :
        \/ origin[key] \in inval.seen[key.path]
        \/ key \in inval.keys

\* Both callers have returned after an invalidate_path of "a.rs" that ran
\* between the read and the insert of one of them; the entry that caller
\* inserted is computed from the content before the rewrite, and the file's
\* fingerprint is the entry's, so the next estimate is served from it.
C30_Witness ==
    /\ \A t \in Callers : callers[t].pc = "idle"
    /\ \E key \in ReadBeforeInvalidation :
           /\ key.path = "a.rs"
           /\ files["a.rs"].kind = "ok"
           /\ key.fingerprint = file_fingerprint(files, "a.rs")
           /\ origin[key] # files["a.rs"].content
           /\ inval.seen["a.rs"] = {files["a.rs"].content}

\* ------------------------------------------------------------------ C31
\* A store over a longer file: single lines and one wider range of "a.rs",
\* with the whole file and the edge lines of "b.md" in between.
MaxWide == 5
WideRanges == {Some(<<l, l>>) : l \in 1..MaxWide} \cup {Some(<<2, 4>>)}
EdgeRanges == {None, Some(<<1, 1>>), Some(<<MaxWide, MaxWide>>)}

NextWide ==
    \/ \E range \in WideRanges \cup {None} : add_selection("a.rs", range, None)
    \/ \E range \in EdgeRanges : add_selection("b.md", range, None)
    \/ \E range \in WideRanges \cup {None} : remove_selection("a.rs", range)
    \/ \E range \in EdgeRanges : remove_selection("b.md", range)

SpecWide == Init /\ [][NextWide]_vars

Without(seq, pos) == SubSeq(seq, 1, pos - 1) \o SubSeq(seq, pos + 1, Len(seq))

\* The entries a ranged add of the path leaves in place: those of other
\* paths, and those of the path outside the merged range.
Remaining(its, path, merged) ==
    SelectSeq(its, LAMBDA e : \/ e.path # path
                              \/ e.range[1][2] < merged[1]
                              \/ e.range[1][1] > merged[2])

\* Where the merged entry belongs among the remaining ones (1-based).
WantedPosition(rest, path, merged) ==
    LET after == {k \in 1..Len(rest) : rest[k].path = path /\ rest[k].range[1][1] > merged[2]}
        same == {k \in 1..Len(rest) : rest[k].path = path}
    IN IF after # {} THEN CHOOSE k \in after : \A other \in after : k <= other
       ELSE IF same # {} THEN (CHOOSE k \in same : \A other \in same : k >= other) + 1
       ELSE Len(rest) + 1

\* The ranged adds of the wider store.
WideAdds == ({"a.rs"} \X WideRanges) \cup ({"b.md"} \X (EdgeRanges \ {None}))

C33_WholeFilePosition ==
    \A path \in Paths :
        LET res == AddResult(items, path, None, None)
            had == EntriesOf(items, path)
            pos == IF had # {} THEN CHOOSE k \in had : \A other \in had : k <= other
                   ELSE Len(items) + 1
        IN /\ pos \in 1..Len(res.items)
           /\ res.items[pos] = res.ret
           /\ res.ret.path = path /\ res.ret.range = None
           /\ Without(res.items, pos) = OtherPaths(items, path)
           /\ OtherPaths(res.items, path) = OtherPaths(items, path)

\* The whole of "a.rs" replaced its three ranged entries, which stood before
\* the entries of "b.md".
C33_Witness ==
    /\ last.op = "add_selection" /\ last.path = "a.rs" /\ last.whole /\ last.prior = 3
    /\ Len(items) >= 2
    /\ items[1] = last.ret
    /\ items[2].path = "b.md"

\* ------------------------------------------------------------------ C34
\* A store whose entries carry two different notes: the single lines and
\* the whole of "a.rs", and the whole of "b.md".
TwoNotes == {None, Some(" x "), Some("y")}
LineRanges == {Some(<<l, l>>) : l \in 1..MaxLine}

NextTwoNotes ==
    \/ \E range \in LineRanges \cup {None}, note \in TwoNotes :
           add_selection("a.rs", range, note)
    \/ \E note \in TwoNotes : add_selection("b.md", None, note)
    \/ \E range \in LineRanges \cup {None} : remove_selection("a.rs", range)

SpecTwoNotes == Init /\ [][NextTwoNotes]_vars

\* The entries an add_selection takes up into its result, in list order:
\* every entry of the path for a whole-file add; the whole-file entry that
\* stays for a ranged add on a path held whole; otherwise the entries of the
\* path inside the merged range.
Absorbed(its, path, range, merged) ==
    IF range = None THEN SelectSeq(its, LAMBDA e : e.path = path)
    ELSE IF HasWholeFile(its, path)
    THEN SelectSeq(its, LAMBDA e : e.path = path /\ e.range = None)
    ELSE SelectSeq(its, LAMBDA e : /\ e.path = path
                                   /\ merged[1][1] <= e.range[1][1]
                                   /\ e.range[1][2] <= merged[1][2])

\* The first note, in list order, of a list of entries.
RECURSIVE FirstNote(_)
FirstNote(entries) ==
    IF entries = <<>> THEN None
    ELSE IF entries[1].note # None THEN entries[1].note
    ELSE FirstNote(Tail(entries))

\* C34: note resolution of add_selection. A supplied note that is not empty
\* once trimmed is the note of the resulting entry; with no such note the
\* resulting entry has the first note, in list order, among the entries it
\* absorbed, and none when none of them has a note.
C34_NoteResolution ==
    \A path \in Paths, range \in LineRanges \cup {None, Some(<<1, MaxLine>>)},
       note \in NoteCases :
        LET res == AddResult(items, path, range, note)
            absorbed == Absorbed(items, path, range, res.ret.range)
        IN /\ \E k \in 1..Len(res.items) : res.items[k] = res.ret
           /\ res.ret.note = IF TrimmedNote(note) # None THEN TrimmedNote(note)
                             ELSE FirstNote(absorbed)

\* "a.rs" holds line 1 noted "x" before line 3 noted "y", next to "b.md";
\* adding line 2 without a note merges the three into one entry noted "x".
C34_Witness ==
    /\ last.op = "add_selection" /\ last.path = "a.rs"
    /\ SelectSeq(items, LAMBDA e : e.path = "a.rs")
           = <<[path |-> "a.rs", range |-> Some(<<1, 1>>), note |-> Some("x")],
               [path |-> "a.rs", range |-> Some(<<3, 3>>), note |-> Some("y")]>>
    /\ EntriesOf(items, "b.md") # {}
    /\ AddResult(items, "a.rs", Some(<<2, 2>>), None).ret
           = [path |-> "a.rs", range |-> Some(<<1, 3>>), note |-> Some("x")]

\* ------------------------------------------------------------------ C35
\* The ranged entries of the path that contain the normalized range.
Containing(its, path, range) ==
    {k \in RangedOf(its, path) :
        /\ its[k].range[1][1] <= normalize_range(range[1])[1]
        /\ normalize_range(range[1])[2] <= its[k].range[1][2]}

RangedInputs == RangeInputs \ {None}

ThreeLines ==
    [lines |-> <<[chars |-> 12, words |-> 3], [chars |-> 10, words |-> 2],
                 [chars |-> 17, words |-> 1]>>,
     nl |-> TRUE]

\* C36: over the three-line file, the selection (2,3) has strictly fewer
\* characters than the whole file; and for every file content and every
\* range, the characters of the ranged selection never exceed those of the
\* whole file, in the texts as in the estimates the cache holds.
C36_RangeNeverLongerThanFile ==
    /\ CharCount(SliceLines(ThreeLines, <<2, 3>>)) < CharCount(ThreeLines)
    /\ \A text \in TextInputs \cup {ThreeLines}, range \in RawRanges :
          CharCount(SliceLines(text, range)) <= CharCount(text)
    /\ \A key \in DOMAIN cache :
          key.range # None =>
             cache[key].characters <= CharCount(FileText(origin[key]))

\* The cache holds line 1 of "a.rs" and the whole of it, computed from the
\* same content, and the line has fewer characters than the file.
C36_Witness ==
    /\ lastEst.called /\ lastEst.result.ok
    /\ \E line, whole \in DOMAIN cache :
          /\ line.path = "a.rs" /\ whole.path = "a.rs"
          /\ line.range = Some(<<1, 1>>) /\ whole.range = None
          /\ origin[line] = origin[whole]
          /\ cache[line].characters < cache[whole].characters
    /\ CharCount(ThreeLines) = 42
    /\ CharCount(SliceLines(ThreeLines, <<2, 3>>)) = 28

\* ------------------------------------------------------------------ C37
\* The key estimate_item builds for the i-th item of the bundle (1-based).
KeyOf(bundle, i) ==
    CacheKey(ResolveModel(estimator, bundle), bundle.items[i],
             file_fingerprint(files, bundle.items[i].path))

\* The items whose estimate cannot be had: not cached, and the file cannot
\* be read.
Failing(bundle) ==
    {i \in 1..Len(bundle.items) :
        /\ KeyOf(bundle, i) \notin DOMAIN cache
        /\ files[bundle.items[i].path].kind # "ok"}

\* C37: when estimate_bundle fails on item k, the cache is its content before
\* the call plus one entry for each item before k that missed; these entries
\* stay, are the estimates of their items for the file's content, and are
\* hit when the same bundle is estimated again; the engine's model, budget
\* and heuristic parameters are not touched.
C37_FailureKeepsEarlierEntries ==
    /\ [] \A bundle \in BundleInputs :
          LET res == EstimateBundleResult([cache |-> cache, origin |-> origin], estimator,
                                          bpe, files, bundle)
              k == CHOOSE i \in Failing(bundle) : \A other \in Failing(bundle) : i <= other
              retry == EstimateBundleResult([cache |-> res.cache, origin |-> res.origin],
                                            estimator, bpe, files, bundle)
          IN /\ res.result.ok <=> Failing(bundle) = {}
             /\ ~res.result.ok =>
                   /\ DOMAIN res.cache = DOMAIN cache \cup {KeyOf(bundle, j) : j \in 1..(k - 1)}
                   /\ \A key \in DOMAIN cache : res.cache[key] = cache[key]
                   /\ \A j \in 1..(k - 1) :
                         KeyOf(bundle, j) \notin DOMAIN cache =>
                            res.cache[KeyOf(bundle, j)] =
                               ComputeEstimate(estimator.heuristics, bpe,
                                   ResolveModel(estimator, bundle), bundle.items[j],
                                   SelectionText(files[bundle.items[j].path].content,
                                                 bundle.items[j].range))
                   /\ ~retry.result.ok
                   /\ retry.cache = res.cache
    /\ [][EstimateStep /\ ~lastEst'.result.ok => estimator' = estimator]_vars

\* A call for the whole of "a.rs" and of "b.md" failed on "b.md", which is
\* missing, and left the entry of "a.rs"; a call for line 1 of "a.rs" and
\* "b.md" now adds the entry of the line before it fails.
C37_Witness ==
    /\ lastEst.called /\ ~lastEst.result.ok /\ ~since.changed /\ since.invalidated = {}
    /\ Len(lastEst.bundle.items) = 2
    /\ files["b.md"].kind = "missing"
    /\ DOMAIN cache = {KeyOf(lastEst.bundle, 1)}
    /\ LET bundle == [items |-> <<[path |-> "a.rs", range |-> Some(<<1, 1>>), note |-> None],
                                  [path |-> "b.md", range |-> None, note |-> None]>>,
                      model |-> None]
           res == EstimateBundleResult([cache |-> cache, origin |-> origin], estimator,
                                       bpe, files, bundle)
       IN /\ lastEst.bundle # bundle
          /\ ~res.result.ok
          /\ DOMAIN res.cache = DOMAIN cache \cup {KeyOf(bundle, 1)}
          /\ Cardinality(DOMAIN res.cache) = 2

\* ------------------------------------------------------------------ C38
\* The bundles the two engines estimate: "a.rs", whole or its first line,
\* for the engine's model or for the character fallback.
CloneBundles ==
    [items : {<<item>> : item \in {i \in ItemInputs : i.path = "a.rs"}},
     model : {None, Some("fallback")}]

\* Variant: the clone counts with the default parameters.
estimate_bundle_on_clone_default_heuristics(bundle) ==
    LET res == EstimateBundleResult([cache |-> cache, origin |-> origin],
                                    [clone EXCEPT !.heuristics = DefaultHeuristics], bpe,
                                    files, bundle)
    IN /\ Cardinality(DOMAIN res.cache) <= MaxCache
       /\ res.cache # cache
       /\ cache' = res.cache
       /\ origin' = res.origin
       /\ UNCHANGED <<estimator, clone, onceVars, files, lastEst, since, storeVars, concVars>>

\* estimate_bundle called on the clone: its own model, budget and heuristic
\* parameters, the shared cache.
estimate_bundle_on_clone(bundle) ==
    LET res == EstimateBundleResult([cache |-> cache, origin |-> origin], clone, bpe,
                                    files, bundle)
    IN /\ Cardinality(DOMAIN res.cache) <= MaxCache
       /\ res.cache # cache
       /\ cache' = res.cache
       /\ origin' = res.origin
       /\ UNCHANGED <<estimator, clone, onceVars, files, lastEst, since, storeVars, concVars>>

\* set_heuristics called on the clone: its own parameters are replaced and
\* the shared cache is cleared.
set_heuristics_on_clone(heuristics) ==
    LET res == SetHeuristicsResult(clone, cache, origin, heuristics) IN
    /\ clone' = res.estimator
    /\ cache' = res.cache
    /\ origin' = res.origin
    /\ since' = IF lastEst.called THEN [since EXCEPT !.changed = TRUE] ELSE since
    /\ UNCHANGED <<estimator, onceVars, files, lastEst, storeVars, concVars>>

\* An engine and its clone, each estimating and each given new heuristic
\* parameters, in any order.
NextClones ==
    \/ \E bundle \in CloneBundles : estimate_bundle(bundle)
    \/ \E bundle \in CloneBundles : estimate_bundle_on_clone(bundle)
    \/ \E heuristics \in HeuristicInputs : set_heuristics(heuristics)
    \/ \E heuristics \in HeuristicInputs : set_heuristics_on_clone(heuristics)

SpecClones == Init /\ [][NextClones]_vars

\* The engines that share the cache.
Engines == {estimator, clone}

\* The counts engine e returns for the one item of the bundle when its key is
\* in the cache.
HitCounts(e, bundle) ==
    LET hit == EstimateBundleResult([cache |-> cache, origin |-> origin], e, bpe, files,
                                    bundle).result.items[1]
    IN <<hit.tokens, hit.characters>>

\* The counts an engine with the parameters of e computes for the item, as
\* model m, from the content the entry under the key was computed from.
OwnCounts(e, m, bundle, key) ==
    LET own == ComputeEstimate(e.heuristics, bpe, m, bundle.items[1],
                               SelectionText(origin[key], key.range))
    IN <<own.tokens, own.characters>>

\* The key engine e looks the one item of the bundle up with.
CloneKey(e, bundle) ==
    CacheKey(ResolveModel(e, bundle), bundle.items[1],
             file_fingerprint(files, bundle.items[1].path))

\* C38 as claimed: every estimate an engine returns from a cache hit is the
\* one it would compute itself, from the same content, with its own current
\* heuristic parameters.
C38_HitEqualsOwnEstimate ==
    \A e \in Engines, bundle \in CloneBundles :
        LET key == CloneKey(e, bundle) IN
        key \in DOMAIN cache =>
            HitCounts(e, bundle) = OwnCounts(e, ResolveModel(e, bundle), bundle, key)

\* C38, amended: every estimate an engine returns from a cache hit is the one
\* computed, from the same content, with the current heuristic parameters of
\* one of the engines sharing the cache, the one that inserted it; it is the
\* caller's own estimate when the model is counted by a BPE tokenizer or the
\* engines have the same parameters.
C38_HitEqualsInsertersEstimate ==
    \A e \in Engines, bundle \in CloneBundles :
        LET key == CloneKey(e, bundle)
            m == ResolveModel(e, bundle)
        IN key \in DOMAIN cache =>
              /\ \E by \in Engines : HitCounts(e, bundle) = OwnCounts(by, m, bundle, key)
              /\ (tokenizer_for(bpe, m) # "heuristic" \/ estimator.heuristics = clone.heuristics)
                    => HitCounts(e, bundle) = OwnCounts(e, m, bundle, key)

\* The engine has counted "a.rs" by the character fallback and cached it; the
\* clone, with other parameters, hits the entry and returns the engine's
\* count, not its own.
C38_Witness ==
    LET bundle == [items |-> <<[path |-> "a.rs", range |-> None, note |-> None]>>,
                   model |-> Some("fallback")]
        key == CloneKey(clone, bundle)
    IN /\ clone.heuristics # estimator.heuristics
       /\ lastEst.called /\ lastEst.bundle = bundle /\ lastEst.result.ok
       /\ key \in DOMAIN cache
       /\ HitCounts(clone, bundle) = OwnCounts(estimator, "CharacterFallback", bundle, key)
       /\ HitCounts(clone, bundle) # OwnCounts(clone, "CharacterFallback", bundle, key)

\* ------------------------------------------------------------------ C39
\* UiApp::restore_session: the records of the snapshot are added one by one,
\* in list order, each with its path, range and note; the store is the one
\* reached from `done` by adding the records from position `idx` (0-based) on.
RECURSIVE RestoreLoop(_, _, _)
RestoreLoop(selections, idx, done) ==
    IF idx >= Len(selections) THEN done
    ELSE LET item == selections[idx + 1] IN
         RestoreLoop(selections, idx + 1,
                     AddResult(done, item.path, item.range, item.note).items)

\* The item list of a new store after restore_session of the snapshot.
restore_session(selections) == RestoreLoop(selections, 0, <<>>)

\* C39: for every reachable store, adding its items one by one, in list
\* order, to an empty store gives the same item list: the same entries, in
\* the same order, with the same notes.
C39_RestoreRoundTrip == restore_session(items) = items

\* A store with two ranged entries of "a.rs", one of them with a note, and an
\* entry of "b.md", which restores to itself.
C39_Witness ==
    /\ last.op = "add_selection"
    /\ Len(items) = 3
    /\ items[1].path = "b.md"
    /\ items[2] = [path |-> "a.rs", range |-> Some(<<1, 1>>), note |-> Some("x")]
    /\ items[3] = [path |-> "a.rs", range |-> Some(<<MaxLine, MaxLine>>), note |-> None]
    /\ restore_session(items) = items

\* ------------------------------------------------------------------ C40
\* Variant: the exporter leaves a start past the end of the file where it is.
ExtractBounds_unclamped_start(total_lines, range) ==
    LET raw == IF range = None THEN <<1, Max(total_lines, 1)>> ELSE range[1]
        start == Max(raw[1], 1)
        end == Max(raw[2], start)
        available_end == IF total_lines = 0 THEN 0 ELSE total_lines
        clamped_end == IF available_end = 0 THEN end ELSE Min(end, available_end)
    IN <<start, clamped_end>>

\* extract_selection_contents, the bounds: (clamped_start, clamped_end) for a
\* file of total_lines lines.
ExtractBounds(total_lines, range) ==
    LET raw == IF range = None THEN <<1, Max(total_lines, 1)>> ELSE range[1]
        start == Max(raw[1], 1)
        end == Max(raw[2], start)
        available_end == IF total_lines = 0 THEN 0 ELSE total_lines
        clamped_start == IF available_end = 0 THEN start ELSE Min(start, available_end)
        clamped_end == IF available_end = 0 THEN end ELSE Min(end, available_end)
    IN <<clamped_start, clamped_end>>

\* extract_selection_contents, the loop: the numbers of the lines it pushes.
ExtractedLines(total_lines, range) ==
    LET bounds == ExtractBounds(total_lines, range) IN
    {line_no \in 1..total_lines : ~(line_no < bounds[1] \/ line_no > bounds[2])}

\* load_selection_contents: the numbers of the lines whose text it returns,
\* lines[start_idx..end_idx] of the ranged item, every line of the whole file.
CountedLines(total_lines, range) ==
    IF range = None THEN 1..total_lines
    ELSE LET bounds == SliceBounds(total_lines, range[1]) IN
         IF bounds = None THEN {} ELSE (bounds[1][1] + 1)..bounds[1][2]

\* The line counts of the files the items are read from.
LineCounts == 0..MaxWide

\* C40 as claimed: for every item of the store and every line count of its
\* file, the estimate counts the lines the exporter renders, none of them
\* when the range starts past the end of the file.
C40_SameLinesCountedAndRendered ==
    \A i \in 1..Len(items), n \in LineCounts :
        CountedLines(n, items[i].range) = ExtractedLines(n, items[i].range)

\* C40, amended: the estimate counts the lines the exporter renders for a
\* whole-file item, for an empty file, and for a range that starts within the
\* file; for a range that starts past the end of a file with lines the
\* estimate counts no line and the exporter renders the last line.
C40_SameLinesUnlessStartPastEnd ==
    \A i \in 1..Len(items), n \in LineCounts :
        LET range == items[i].range IN
        IF range # None /\ n >= 1 /\ range[1][1] > n
        THEN /\ CountedLines(n, range) = {}
             /\ ExtractedLines(n, range) = {n}
        ELSE CountedLines(n, range) = ExtractedLines(n, range)

\* The store holds lines 2 to 4 of "a.rs": of a file of 3 lines both take
\* lines 2 and 3; of a file of 1 line the estimate takes none and the
\* exporter line 1.
C40_Witness ==
    /\ last.op = "add_selection"
    /\ \E i \in 1..Len(items) :
          /\ items[i].path = "a.rs" /\ items[i].range = Some(<<2, 4>>)
          /\ CountedLines(3, items[i].range) = {2, 3}
          /\ ExtractedLines(3, items[i].range) = {2, 3}
          /\ CountedLines(1, items[i].range) = {}
          /\ ExtractedLines(1, items[i].range) = {1}
          /\ CountedLines(0, items[i].range) = ExtractedLines(0, items[i].range)

====
